---- MODULE Spec2Model ----
(***************************************************************************)
(* Model of the playback pipeline of rust_player: AudioPlayer              *)
(* (src/src/audio.rs), its decode threads and the shared sample queue;     *)
(* the spectrum analyzer (src/src/visualizer.rs); and the foreground loop  *)
(* (src/src/main.rs, src/src/ui.rs).                                       *)
(*                                                                         *)
(* Units.  f32 values are modelled exactly as fixed-point integers, or as  *)
(* NaN: a value is a record [nan, v].  The volume is in tenths, a          *)
(* normalized sample in 128ths, a queued (volume-scaled) sample in 1280ths.*)
(* A position is in nanoseconds, a duration in milliseconds.                *)
(***************************************************************************)
EXTENDS Integers, Sequences, FiniteSets, TLC

\* ------------------------------------------------------------------ bounds
\* successful load_file() calls (decode threads) in one run; the runs about
\* reloading a source allow one more
MaxLoads == 1
\* blocks the decoders deliver in one run, over all decode threads
MaxBlocks == 3
\* add_samples() and update_spectrum() calls in one run of the analyzer alone
MaxCalls == 4
\* key events the foreground loop is sent in one run
MaxKeys == 2
\* foreground ticks counted in one run (the loop goes on after them)
MaxTicks == 2
\* packets decoded in a run of the decode loop alone
MaxPackets == 4
\* reads of a given source before its end
MaxReads == 3
\* files in a scanned directory
MaxFiles == 3

\* ------------------------------------------------------------- f32 values
F(x) == [nan |-> FALSE, v |-> x]
NaN == [nan |-> TRUE, v |-> 0]

\* f32 multiplication: NaN is absorbing
Mul(a, b) == IF a.nan \/ b.nan THEN NaN ELSE F(a.v * b.v)

\* f32::clamp(0.0, 1.0) on a volume in tenths: NaN stays NaN
Clamp01(x) == IF x.nan THEN NaN ELSE IF x.v < 0 THEN F(0) ELSE IF x.v > 10 THEN F(10) ELSE x

\* f32 values of the analyzer are modelled exactly as rationals, or as NaN:
\* a record [nan, n, d] in lowest terms, d > 0.
RECURSIVE GCD(_, _)
GCD(a, b) == IF b = 0 THEN a ELSE GCD(b, a % b)

LCM(a, b) == (a \div GCD(a, b)) * b

Abs(x) == IF x < 0 THEN -x ELSE x

Q(n, d) == LET g == GCD(Abs(n), d) IN [nan |-> FALSE, n |-> n \div g, d |-> d \div g]
QNaN == [nan |-> TRUE, n |-> 0, d |-> 1]

QAdd(a, b) ==
  IF a.nan \/ b.nan THEN QNaN
  ELSE LET l == LCM(a.d, b.d) IN Q(a.n * (l \div a.d) + b.n * (l \div b.d), l)

QSub(a, b) == QAdd(a, [b EXCEPT !.n = -b.n])

QMul(a, b) == IF a.nan \/ b.nan THEN QNaN ELSE Q(a.n * b.n, a.d * b.d)

\* a / b for b > 0 (the analyzer divides by a maximum it found positive)
QDiv(a, b) == IF a.nan \/ b.nan \/ b.n <= 0 THEN QNaN ELSE Q(a.n * b.d, a.d * b.n)

\* a < b, a <= b: every comparison with NaN is false
QLess(a, b) == ~a.nan /\ ~b.nan /\ a.n * b.d < b.n * a.d
QLe(a, b) == ~a.nan /\ ~b.nan /\ a.n * b.d <= b.n * a.d

\* f32::max, f32::min: when one argument is NaN the other is returned
QMax(a, b) == IF a.nan THEN b ELSE IF b.nan THEN a ELSE IF QLess(a, b) THEN b ELSE a
QMin(a, b) == IF a.nan THEN b ELSE IF b.nan THEN a ELSE IF QLess(b, a) THEN b ELSE a

\* f32::sqrt of a value >= 0 whose root is rational (the only ones the runs
\* take a root of)
ISqrt(n) == CHOOSE r \in 0 .. n : r * r = n
QSqrt(a) == IF a.nan THEN QNaN ELSE Q(ISqrt(a.n), ISqrt(a.d))

\* a % m for a >= 0 and an integer m > 0: the remainder of a truncated division
QRem(a, m) == IF a.nan THEN QNaN ELSE Q(a.n % (m * a.d), a.d)

\* the output rate the device is opened with, and that the decode loop targets
OutputRate == 48000

\* Option<T>: None is <<>>, Some(x) is <<x>>
None == <<>>
Some(x) == <<x>>

\* ------------------------------------------------------------------ inputs
\* The media files load_file() is called on.  err is the first step of
\* load_file that fails on the file ("none": the load succeeds); sample_rate
\* and n_frames are the codec parameters (Option); native is the rate of the
\* buffers the decoder really delivers; channels their channel count.
Files ==
  { [err |-> "open",      sample_rate |-> None,        native |-> 48000, n_frames |-> None,         channels |-> 2],
    [err |-> "probe",     sample_rate |-> None,        native |-> 48000, n_frames |-> None,         channels |-> 2],
    [err |-> "track",     sample_rate |-> None,        native |-> 48000, n_frames |-> None,         channels |-> 2],
    [err |-> "decoder",   sample_rate |-> Some(48000), native |-> 48000, n_frames |-> Some(96000),  channels |-> 2],
    [err |-> "resampler", sample_rate |-> Some(44100), native |-> 44100, n_frames |-> Some(88200),  channels |-> 2],
    [err |-> "none",      sample_rate |-> Some(48000), native |-> 48000, n_frames |-> Some(96000),  channels |-> 2],
    [err |-> "none",      sample_rate |-> Some(44100), native |-> 44100, n_frames |-> None,         channels |-> 1] }

\* set_volume() arguments, in tenths.  VolumeArgs (0.5) is what the runs with
\* decode threads call it with, AllVolumeArgs (NaN, -1.2 .. 2.2) what the
\* runs of the controller alone call it with.
VolumeArgs == { F(5) }
AllVolumeArgs == { NaN } \cup { F(x) : x \in -12 .. 22 }

\* The first channel of a decoded buffer, already normalized to f32 (128ths).
DecodedBlocks == { << F(-128), F(64) >> }

\* What the resampler returns for a block when it succeeds (128ths).
ResampledBlocks == { << F(-64), F(32), F(16) >> }

VARIABLES
  sample_buffer,     \* AudioPlayer.sample_buffer: the queue
  is_playing,        \* AudioPlayer.is_playing
  current_position,  \* AudioPlayer.current_position
  duration,          \* AudioPlayer.duration
  volume,            \* AudioPlayer.volume
  threads,           \* the decode threads spawned so far, in spawn order
  loads,             \* history: the successful load_file() calls
  produced,          \* history: every sample appended to the queue, in order
  drained,           \* history: the values get_samples() returned, concatenated
  posWriters,        \* history: the threads that wrote current_position, in order
  load_result,       \* history: "Ok" or "Err", the value of the last load_file() call
  visualizer,        \* the Visualizer: a record of its fields
  now,               \* the last reading of Instant::now(), in tenths of a second
  added,             \* history: every sample passed to add_samples(), in order
  ticks,             \* history: the number of update_spectrum() calls (up to MaxTicks
                     \* in the foreground loop)
  run_app,           \* where the foreground loop is: "poll", "play", "update", "Ok", "Err"
  keys,              \* history: the number of key events the foreground loop handled
  call,              \* a call of a pure function: its name, arguments and result
  stream,            \* of a decode thread whose source is given: what the reads and
                     \* decodes of its loop return (outcomes), and how many of them
                     \* it has had (read)
  mutex,             \* the mutexes: who holds each one (holder), and what each
                     \* thread has still to lock and unlock in the call or loop
                     \* iteration it is in (todo)
  library            \* the MusicLibrary: the number of tracks of each album, in
                     \* album order, and the two current indexes

shared == << sample_buffer, is_playing, current_position, duration, volume >>
history == << loads, produced, drained, posWriters, load_result >>
player == << sample_buffer, is_playing, current_position, duration, volume,
             threads, loads, produced, drained, posWriters, load_result >>
analyzer == << visualizer, now, added, ticks >>
foreground == << run_app, keys >>
vars == << sample_buffer, is_playing, current_position, duration, volume,
           threads, loads, produced, drained, posWriters, load_result,
           visualizer, now, added, ticks, run_app, keys, call, stream, mutex, library >>

Threads == 1 .. Len(threads)

\* ---------------------------------------------------------- Visualizer::new
fft_size == 2048
bar_count == 32

\* the fields of a Visualizer as new() builds it; last_beat_time is the
\* clock at construction
VisualizerNew ==
  [ sample_buffer |-> << >>,
    spectrum_bars |-> [i \in 1 .. bar_count |-> Q(0, 1)],
    beat_intensity |-> Q(0, 1),
    rainbow_hue |-> Q(0, 1),
    last_beat_time |-> 0 ]

\* no thread is at a mutex: the runs that do not follow the locks
NoMutex == [holder |-> << >>, todo |-> << >>]

\* ------------------------------------------------------- MusicLibrary::new
LibraryNew == [albums |-> << >>, current_album_index |-> 0, current_track_index |-> 0]

\* no pure function was called
NoCall == [fn |-> "none", args |-> << >>, ret |-> << >>]

\* ------------------------------------------------------------- App::new
\* the analyzer as App::new builds it; the histories are empty
AnalyzerNew ==
  /\ visualizer = VisualizerNew
  /\ now = 0
  /\ added = << >>
  /\ ticks = 0

\* --------------------------------------------------------- AudioPlayer::new
PlayerNew ==
  /\ sample_buffer = << >>
  /\ is_playing = FALSE
  /\ current_position = 0
  /\ duration = 0
  /\ volume = F(7)
  /\ threads = << >>
  /\ loads = << >>
  /\ produced = << >>
  /\ drained = << >>
  /\ posWriters = << >>
  /\ load_result = "none"

Init ==
  /\ PlayerNew
  /\ AnalyzerNew
  /\ run_app = "poll"
  /\ keys = 0
  /\ call = NoCall
  /\ stream = << >>
  /\ mutex = NoMutex
  /\ library = LibraryNew

\* ------------------------------------------------- AudioPlayer::load_file
\* spec.rate: the codec's sample rate, 48000 when the codec gives none
SampleRate(f) == IF f.sample_rate = None THEN OutputRate ELSE f.sample_rate[1]

\* The first `?` of load_file that returns Err on f, in source order: open,
\* probe, track lookup, decoder, and the resampler, which is only built for
\* a rate other than 48000.
LoadError(f) ==
  IF f.err = "resampler" /\ SampleRate(f) = OutputRate THEN "none" ELSE f.err

\* Duration::from_secs_f64(n_frames / sample_rate), in milliseconds
DurationOf(n, rate) == (n * 1000) \div rate

\* the closure thread::spawn moves: the state a decode thread owns
NewThread(f) ==
  [ pc |-> "poll",
    volume |-> volume,
    resampler |-> SampleRate(f) # OutputRate,
    native |-> f.native,
    channels |-> f.channels,
    position |-> 0,
    made |-> 0,
    f32_samples |-> << >>,
    sample_count |-> 0 ]

\* load_file as it would be with the duration written before the decoder and
\* the resampler are built
LoadFileDurationFirst(f) ==
  IF LoadError(f) \in {"open", "probe", "track"}
  THEN /\ load_result' = "Err"
       /\ UNCHANGED << shared, threads, loads, produced, drained, posWriters >>
  ELSE /\ duration' = IF f.n_frames # None
                        THEN DurationOf(f.n_frames[1], SampleRate(f))
                        ELSE duration
       /\ IF LoadError(f) # "none"
          THEN /\ load_result' = "Err"
               /\ UNCHANGED << threads, loads >>
          ELSE /\ threads' = Append(threads, NewThread(f))
               /\ loads' = Append(loads, [file |-> f, volume |-> volume])
               /\ load_result' = "Ok"
       /\ UNCHANGED << sample_buffer, is_playing, current_position, volume,
                       produced, drained, posWriters >>

\* load_file as it would be if a load started from an empty queue
LoadFileClears(f) ==
  IF LoadError(f) # "none"
  THEN /\ load_result' = "Err"
       /\ UNCHANGED << shared, threads, loads, produced, drained, posWriters >>
  ELSE /\ duration' = IF f.n_frames # None
                        THEN DurationOf(f.n_frames[1], SampleRate(f))
                        ELSE duration
       /\ sample_buffer' = << >>
       /\ threads' = Append(threads, NewThread(f))
       /\ loads' = Append(loads, [file |-> f, volume |-> volume])
       /\ load_result' = "Ok"
       /\ UNCHANGED << is_playing, current_position, volume,
                       produced, drained, posWriters >>

\* load_file as it would be if it first stopped the decode threads of the
\* loads before it
LoadFileStopsFirst(f) ==
  LET stopped == [ t \in 1 .. Len(threads) |-> [threads[t] EXCEPT !.pc = "done"] ]
  IN IF LoadError(f) # "none"
     THEN /\ load_result' = "Err"
          /\ threads' = stopped
          /\ UNCHANGED << shared, loads, produced, drained, posWriters >>
     ELSE /\ duration' = IF f.n_frames # None
                           THEN DurationOf(f.n_frames[1], SampleRate(f))
                           ELSE duration
          /\ threads' = Append(stopped, NewThread(f))
          /\ loads' = Append(loads, [file |-> f, volume |-> volume])
          /\ load_result' = "Ok"
          /\ UNCHANGED << sample_buffer, is_playing, current_position, volume,
                          produced, drained, posWriters >>

\* load_file as it would be if it wrote a zero duration for a source whose
\* frame count is unknown
LoadFileResetsDuration(f) ==
  IF LoadError(f) # "none"
  THEN /\ load_result' = "Err"
       /\ UNCHANGED << shared, threads, loads, produced, drained, posWriters >>
  ELSE /\ duration' = IF f.n_frames # None
                        THEN DurationOf(f.n_frames[1], SampleRate(f))
                        ELSE 0
       /\ threads' = Append(threads, NewThread(f))
       /\ loads' = Append(loads, [file |-> f, volume |-> volume])
       /\ load_result' = "Ok"
       /\ UNCHANGED << sample_buffer, is_playing, current_position, volume,
                       produced, drained, posWriters >>

\* load_file as it would be if a successful load set the position to zero
LoadFileResetsPosition(f) ==
  IF LoadError(f) # "none"
  THEN /\ load_result' = "Err"
       /\ UNCHANGED << shared, threads, loads, produced, drained, posWriters >>
  ELSE /\ duration' = IF f.n_frames # None
                        THEN DurationOf(f.n_frames[1], SampleRate(f))
                        ELSE duration
       /\ current_position' = 0
       /\ threads' = Append(threads, NewThread(f))
       /\ loads' = Append(loads, [file |-> f, volume |-> volume])
       /\ load_result' = "Ok"
       /\ UNCHANGED << sample_buffer, is_playing, volume,
                       produced, drained, posWriters >>

LoadFile(f) ==
  IF LoadError(f) # "none"
  THEN /\ load_result' = "Err"
       /\ UNCHANGED << shared, threads, loads, produced, drained, posWriters >>
  ELSE /\ duration' = IF f.n_frames # None
                        THEN DurationOf(f.n_frames[1], SampleRate(f))
                        ELSE duration
       /\ threads' = Append(threads, NewThread(f))
       /\ loads' = Append(loads, [file |-> f, volume |-> volume])
       /\ load_result' = "Ok"
       /\ UNCHANGED << sample_buffer, is_playing, current_position, volume,
                       produced, drained, posWriters >>

\* ------------------------------------------------ play / pause / set_volume
Play ==
  /\ is_playing' = TRUE
  /\ UNCHANGED << sample_buffer, current_position, duration, volume, threads, history >>

Pause ==
  /\ is_playing' = FALSE
  /\ UNCHANGED << sample_buffer, current_position, duration, volume, threads, history >>

SetVolume(v) ==
  /\ volume' = Clamp01(v)
  /\ UNCHANGED << sample_buffer, is_playing, current_position, duration, threads, history >>

\* ----------------------------------------------- AudioPlayer::get_samples
\* get_samples as it would be if it copied the queue without draining it
GetSamplesCopy ==
  /\ drained' = drained \o sample_buffer
  /\ UNCHANGED << sample_buffer, is_playing, current_position, duration, volume,
                  threads, loads, produced, posWriters, load_result >>

GetSamples ==
  /\ drained' = drained \o sample_buffer
  /\ sample_buffer' = << >>
  /\ UNCHANGED << is_playing, current_position, duration, volume, threads,
                  loads, produced, posWriters, load_result >>

\* ------------------------------------------------------- the decode thread
\* One iteration of the loop is at most three accesses to shared state: the
\* read of the play flag (line 125), the append under the queue lock (190)
\* and the write of the position (200).  What a thread does between two of
\* them touches only state it owns, so it is part of the step of the access
\* before it.  pc: "poll" (about to read the flag), "sleep" (line 126),
\* "append" (about to take the queue lock), "setpos" (about to write the
\* position), "done" (the loop was left by break).
Step(t, r) == threads' = [threads EXCEPT ![t] = r]

Alive(t) == threads[t].pc # "done"

\* the pause poll as it would be with `break` for `continue`
PausedBreaks(t) ==
  /\ threads[t].pc = "poll"
  /\ ~is_playing
  /\ Step(t, [threads[t] EXCEPT !.pc = "done"])
  /\ UNCHANGED << shared, history >>

\* if !*is_playing.lock().unwrap() { thread::sleep(10 ms); continue }
Paused(t) ==
  /\ threads[t].pc = "poll"
  /\ ~is_playing
  /\ Step(t, [threads[t] EXCEPT !.pc = "sleep"])
  /\ UNCHANGED << shared, history >>

\* thread::sleep returns; continue
Wake(t) ==
  /\ threads[t].pc = "sleep"
  /\ Step(t, [threads[t] EXCEPT !.pc = "poll"])
  /\ UNCHANGED << shared, history >>

\* the arm of a packet of another track as it would be with `break`
PacketOtherTrackBreaks(t) ==
  /\ threads[t].pc = "poll"
  /\ is_playing
  /\ Step(t, [threads[t] EXCEPT !.pc = "done"])
  /\ UNCHANGED << shared, history >>

\* format.next_packet() = Ok(packet) of another track: continue
PacketOtherTrack(t) ==
  /\ threads[t].pc = "poll"
  /\ is_playing
  /\ Step(t, [threads[t] EXCEPT !.pc = "poll"])
  /\ UNCHANGED << shared, history >>

\* format.next_packet() = Err(ResetRequired): decoder.reset()
PacketResetRequired(t) ==
  /\ threads[t].pc = "poll"
  /\ is_playing
  /\ Step(t, [threads[t] EXCEPT !.pc = "poll"])
  /\ UNCHANGED << shared, history >>

\* the break of next_packet's Err(_) as it would be if it cleared the play flag
PacketErrorStops(t) ==
  /\ threads[t].pc = "poll"
  /\ is_playing
  /\ is_playing' = FALSE
  /\ Step(t, [threads[t] EXCEPT !.pc = "done"])
  /\ UNCHANGED << sample_buffer, current_position, duration, volume, history >>

\* format.next_packet() = Err(_), end of stream included: break
PacketError(t) ==
  /\ threads[t].pc = "poll"
  /\ is_playing
  /\ Step(t, [threads[t] EXCEPT !.pc = "done"])
  /\ UNCHANGED << shared, history >>

\* the arm of decode's ResetRequired as it would be with `break`
DecodeResetBreaks(t) ==
  /\ threads[t].pc = "poll"
  /\ is_playing
  /\ Step(t, [threads[t] EXCEPT !.pc = "done"])
  /\ UNCHANGED << shared, history >>

\* decoder.decode() = Err(ResetRequired): decoder.reset()
DecodeResetRequired(t) ==
  /\ threads[t].pc = "poll"
  /\ is_playing
  /\ Step(t, [threads[t] EXCEPT !.pc = "poll"])
  /\ UNCHANGED << shared, history >>

\* decoder.decode() = Err(_): break
DecodeError(t) ==
  /\ threads[t].pc = "poll"
  /\ is_playing
  /\ Step(t, [threads[t] EXCEPT !.pc = "done"])
  /\ UNCHANGED << shared, history >>

\* the factor as it would be if the loop read the player's volume
ScaleShared(t) == volume

\* the factor of `*sample *= volume`: the volume the closure captured
Scale(t) == threads[t].volume

\* One sample of a block: val = raw * volume.  The other fields are history
\* tags: raw, src (the thread), k (the sample is the k-th one the thread made),
\* rate (the rate the block is at), and first and len (the k of the first
\* sample of its block, and the length of the block).
Sample(t, x, k, rate, first, len) ==
  [ val |-> Mul(x, Scale(t)), raw |-> x, src |-> t, k |-> k, rate |-> rate,
    first |-> first, len |-> len ]

Block(t, xs, rate) ==
  [ i \in 1 .. Len(xs) |->
      Sample(t, xs[i], threads[t].made + i, rate, threads[t].made + 1, Len(xs)) ]

\* the resampling as it would be if a block process() failed on were dropped
ResampleDropsFailed(t, block, ok, out) ==
  IF threads[t].resampler
  THEN IF ok THEN Block(t, out, OutputRate) ELSE << >>
  ELSE Block(t, block, threads[t].native)

\* if let Ok(resampled) = resampler.process(..) { f32_samples = resampled[0] }:
\* `ok` is whether process() returned Ok, `out` what it returned
Resample(t, block, ok, out) ==
  IF threads[t].resampler /\ ok
  THEN Block(t, out, OutputRate)
  ELSE Block(t, block, threads[t].native)

\* blocks decoded so far: appended and positioned, or on their way
NumBlocks ==
  Len(posWriters)
    + Cardinality({ u \in Threads : threads[u].pc \in {"append", "setpos"} })

\* an iteration that decodes a packet without reading the play flag
DecodeOkIgnoresFlag(t, block, ok, out) ==
  /\ threads[t].pc = "poll"
  /\ NumBlocks < MaxBlocks
  /\ LET f32_samples == Resample(t, block, ok, out)
     IN Step(t, [threads[t] EXCEPT !.pc = "append",
                                   !.f32_samples = f32_samples,
                                   !.sample_count = Len(f32_samples),
                                   !.made = @ + Len(f32_samples)])
  /\ UNCHANGED << shared, history >>

\* decoder.decode() = Ok(audio_buf): normalize chan(0) (`block`), resample
\* when a resampler exists, apply volume.
DecodeOk(t, block, ok, out) ==
  /\ threads[t].pc = "poll"
  /\ is_playing
  /\ NumBlocks < MaxBlocks
  /\ LET f32_samples == Resample(t, block, ok, out)
     IN Step(t, [threads[t] EXCEPT !.pc = "append",
                                   !.f32_samples = f32_samples,
                                   !.sample_count = Len(f32_samples),
                                   !.made = @ + Len(f32_samples)])
  /\ UNCHANGED << shared, history >>

\* the append as it would be with push_front of the block
PushFront(buffer, samples) == samples \o buffer

\* the append as it would be on a queue that holds at most four samples and
\* drops a block it has no room for
PushBackBounded(buffer, samples) ==
  IF Len(buffer) + Len(samples) > 4 THEN buffer ELSE buffer \o samples

\* buffer.push_back(sample) for every sample, under one hold of the lock
PushBack(buffer, samples) == buffer \o samples

\* the append as it would be if the block were dropped
AddToBufferDropsBlock(t) ==
  /\ threads[t].pc = "append"
  /\ Step(t, [threads[t] EXCEPT !.pc = "setpos", !.f32_samples = << >>])
  /\ UNCHANGED << shared, history >>

\* the append as it would be with the queue locked for each sample on its
\* own: one sample is pushed, and the thread is still at the append while
\* the block has more
AddToBufferBySample(t) ==
  /\ threads[t].pc = "append"
  /\ threads[t].f32_samples # << >>
  /\ sample_buffer' = PushBack(sample_buffer, << Head(threads[t].f32_samples) >>)
  /\ produced' = Append(produced, Head(threads[t].f32_samples))
  /\ Step(t, [threads[t] EXCEPT !.pc = IF Len(threads[t].f32_samples) = 1
                                       THEN "setpos" ELSE "append",
                                !.f32_samples = Tail(@)])
  /\ UNCHANGED << is_playing, current_position, duration, volume,
                  loads, drained, posWriters, load_result >>

AddToBuffer(t) ==
  /\ threads[t].pc = "append"
  /\ sample_buffer' = PushBack(sample_buffer, threads[t].f32_samples)
  /\ produced' = produced \o threads[t].f32_samples
  /\ Step(t, [threads[t] EXCEPT !.pc = "setpos", !.f32_samples = << >>])
  /\ UNCHANGED << is_playing, current_position, duration, volume,
                  loads, drained, posWriters, load_result >>

\* the increment as it would be if it were sample_count / 48000 seconds
PositionDeltaMono(sample_count, channels) ==
  LET q == (sample_count * 62500) \div 3
      r == (sample_count * 62500) % 3
  IN IF 2 * r > 3 THEN q + 1 ELSE q

\* Duration::from_secs_f64(sample_count as f64 / (48000.0 * channels as f64)):
\* a Duration is a whole number of nanoseconds, and the conversion rounds to
\* the nearest one, ties to even.  10^9 / 48000 is 62500 / 3.
PositionDelta(sample_count, channels) ==
  LET num == sample_count * 62500
      den == 3 * channels
      q == num \div den
      r == num % den
  IN IF 2 * r > den \/ (2 * r = den /\ q % 2 = 1) THEN q + 1 ELSE q

\* the position update as it would be with `position = ...` for `position += ...`
UpdatePositionOfBlock(t) ==
  /\ threads[t].pc = "setpos"
  /\ LET position == PositionDelta(threads[t].sample_count, threads[t].channels)
     IN /\ current_position' = position
        /\ Step(t, [threads[t] EXCEPT !.pc = "poll", !.position = position,
                                      !.sample_count = 0])
  /\ posWriters' = Append(posWriters, t)
  /\ UNCHANGED << sample_buffer, is_playing, duration, volume,
                  loads, produced, drained, load_result >>

\* position += ...; *current_position.lock().unwrap() = position
UpdatePosition(t) ==
  /\ threads[t].pc = "setpos"
  /\ LET position == threads[t].position
                        + PositionDelta(threads[t].sample_count, threads[t].channels)
     IN /\ current_position' = position
        /\ Step(t, [threads[t] EXCEPT !.pc = "poll", !.position = position,
                                      !.sample_count = 0])
  /\ posWriters' = Append(posWriters, t)
  /\ UNCHANGED << sample_buffer, is_playing, duration, volume,
                  loads, produced, drained, load_result >>

ThreadStep(t) ==
  \/ Paused(t)
  \/ Wake(t)
  \/ PacketOtherTrack(t)
  \/ PacketResetRequired(t)
  \/ PacketError(t)
  \/ \E block \in DecodedBlocks, ok \in BOOLEAN, out \in ResampledBlocks :
       DecodeOk(t, block, ok, out)
  \/ DecodeResetRequired(t)
  \/ DecodeError(t)
  \/ AddToBuffer(t)
  \/ UpdatePosition(t)

\* load_file() while fewer than n decode threads were spawned
Load(f, n) ==
  /\ LoadError(f) = "none" => Len(threads) < n
  /\ LoadFile(f)

\* The player with its decode threads, at the volume it is constructed with.
Idle == UNCHANGED << analyzer, foreground, call, stream, mutex, library >>

Next ==
  \/ Idle /\ \E f \in Files : Load(f, MaxLoads)
  \/ Idle /\ Play
  \/ Idle /\ Pause
  \/ Idle /\ GetSamples
  \/ Idle /\ \E t \in Threads : ThreadStep(t)

Spec == Init /\ [][Next]_vars

\* The controller alone, decode threads spawned but not yet scheduled:
\* set_volume() over its whole argument range.
NextController ==
  \/ Idle /\ \E f \in Files : Load(f, MaxLoads)
  \/ Idle /\ Play
  \/ Idle /\ Pause
  \/ Idle /\ \E v \in AllVolumeArgs : SetVolume(v)

SpecController == Init /\ [][NextController]_vars

\* The player with its decode threads and set_volume(), without the calls
\* that neither read nor write a volume (pause, get_samples).
NextVolume ==
  \/ Idle /\ \E f \in Files : Load(f, MaxLoads)
  \/ Idle /\ Play
  \/ Idle /\ \E v \in VolumeArgs : SetVolume(v)
  \/ Idle /\ \E t \in Threads : ThreadStep(t)

SpecVolume == Init /\ [][NextVolume]_vars

\* The files load_file() succeeds on
Loadable == { f \in Files : LoadError(f) = "none" }

\* The player reloaded and left playing: load_file() is called again, with a
\* file it can load, while the decode thread of an earlier load may still be
\* alive, and nothing pauses the threads or drains the queue.
NextReload ==
  \/ Idle /\ \E f \in Loadable : Load(f, MaxLoads + 1)
  \/ Idle /\ Play
  \/ Idle /\ \E t \in Threads : ThreadStep(t)

SpecReload == Init /\ [][NextReload]_vars

\* The player reloaded with a source at the output rate, left playing, and
\* read: the decode threads of two loads append to the queue that
\* get_samples() drains.
NextDrain ==
  \/ Idle /\ \E f \in { g \in Loadable : g.native = OutputRate } : Load(f, MaxLoads + 1)
  \/ Idle /\ Play
  \/ Idle /\ GetSamples
  \/ Idle /\ \E t \in Threads : ThreadStep(t)

SpecDrain == Init /\ [][NextDrain]_vars

\* Sources of known length at a rate other than the output rate, which
\* load_file() succeeds on: one second and 1000 frames at 44100 Hz.
FilesOfKnownLength ==
  { [err |-> "none", sample_rate |-> Some(44100), native |-> 44100, n_frames |-> Some(n), channels |-> 2] :
      n \in { 44100, 1000 } }

\* The player loaded again and again, with files it can and cannot load,
\* played and paused and its volume set, the decode threads spawned but not
\* yet scheduled.
NextLoads ==
  \/ Idle /\ \E f \in Files \cup FilesOfKnownLength : Load(f, MaxLoads + 1)
  \/ Idle /\ Play
  \/ Idle /\ Pause
  \/ Idle /\ \E v \in VolumeArgs : SetVolume(v)

SpecLoads == Init /\ [][NextLoads]_vars

\* ------------------------------------- the decode thread on a given source
\* What one iteration of the loop gets from format.next_packet() and
\* decoder.decode() while the play flag is set:
\*   "decoded"       Ok(packet) of the track, decode() = Ok(audio_buf)
\*   "other_track"   Ok(packet) of another track
\*   "read_reset"    next_packet() = Err(ResetRequired)
\*   "decode_reset"  Ok(packet) of the track, decode() = Err(ResetRequired)
\*   "decode_error"  Ok(packet) of the track, decode() = Err(_)
\*   "read_error"    next_packet() = Err(_) before the end of the stream
\* A source is a finite sequence of them; after it next_packet() returns the
\* Err of the end of the stream.
Outcomes ==
  { "decoded", "other_track", "read_reset", "decode_reset", "decode_error", "read_error" }

RECURSIVE SeqsUpTo(_, _)
SeqsUpTo(S, n) ==
  IF n = 0 THEN { << >> }
  ELSE LET shorter == SeqsUpTo(S, n - 1)
       IN shorter \cup { Append(q, x) : q \in { r \in shorter : Len(r) = n - 1 }, x \in S }

Decoded(outcomes) == Len(SelectSeq(outcomes, LAMBDA e : e = "decoded"))

\* the sources: at most MaxReads outcomes, MaxBlocks of them decoded buffers
Sources == { q \in SeqsUpTo(Outcomes, MaxReads) : Decoded(q) <= MaxBlocks }

AtEnd(t) == stream[t].read = Len(stream[t].outcomes)

\* the loop of thread t gets outcome e
Reads(t, e) ==
  /\ ~AtEnd(t)
  /\ stream[t].outcomes[stream[t].read + 1] = e
  /\ stream' = [stream EXCEPT ![t].read = @ + 1]

\* the loop of thread t gets the end of the stream
EndOfStream(t) == AtEnd(t) /\ UNCHANGED stream

StreamStep(t) ==
  \/ Paused(t) /\ UNCHANGED stream
  \/ Wake(t) /\ UNCHANGED stream
  \/ Reads(t, "other_track") /\ PacketOtherTrack(t)
  \/ Reads(t, "read_reset") /\ PacketResetRequired(t)
  \/ Reads(t, "read_error") /\ PacketError(t)
  \/ EndOfStream(t) /\ PacketError(t)
  \/ Reads(t, "decoded") /\ \E block \in DecodedBlocks, ok \in BOOLEAN, out \in ResampledBlocks :
                               DecodeOk(t, block, ok, out)
  \/ Reads(t, "decode_reset") /\ DecodeResetRequired(t)
  \/ Reads(t, "decode_error") /\ DecodeError(t)
  \/ AddToBuffer(t) /\ UNCHANGED stream
  \/ UpdatePosition(t) /\ UNCHANGED stream

\* A new player after one load_file(f) that returned Ok, on a source.
InitStream ==
  /\ \E f \in Loadable, q \in Sources :
       /\ volume = F(7)
       /\ threads = << NewThread(f) >>
       /\ loads = << [file |-> f, volume |-> volume] >>
       /\ duration = IF f.n_frames # None THEN DurationOf(f.n_frames[1], SampleRate(f)) ELSE 0
       /\ stream = << [outcomes |-> q, read |-> 0] >>
  /\ sample_buffer = << >>
  /\ is_playing = FALSE
  /\ current_position = 0
  /\ produced = << >>
  /\ drained = << >>
  /\ posWriters = << >>
  /\ load_result = "Ok"
  /\ AnalyzerNew
  /\ run_app = "poll"
  /\ keys = 0
  /\ call = NoCall
  /\ mutex = NoMutex
  /\ library = LibraryNew

\* a step of a decode thread
DecodeThreads ==
  UNCHANGED << analyzer, foreground, call, mutex, library >> /\ \E t \in Threads : StreamStep(t)

NextStream ==
  \/ Idle /\ Play
  \/ Idle /\ Pause
  \/ DecodeThreads

SpecStream == InitStream /\ [][NextStream]_vars

\* The thread is scheduled again and again, its sleep of 10 ms returns, and
\* the locks it takes are held by the other threads for a few statements.
SpecStreamFair == SpecStream /\ WF_vars(DecodeThreads)

\* ------------------------------------------------------------ the mutexes
\* The threads are numbered: 1 is the foreground loop, 1 + k the decode
\* thread of the k-th successful load_file().  A mutex is held by a thread
\* or by none (Free).  What a thread does is followed only as far as the
\* mutexes go: mutex.todo[t] is what thread t has still to lock and unlock,
\* in order, in the call or the loop iteration it is in.
FieldLocks == { "is_playing", "current_position", "duration", "sample_buffer" }
OuterLocks == { "audio_player", "music_library", "app_state" }
Locks == FieldLocks \cup OuterLocks
Free == 0
Ui == 1

Lock(l) == << "lock", l >>
Unlock(l) == << "unlock", l >>
SpawnDecode == << "spawn", "decode" >>
Done == << "done", "decode" >>

\* `*self.field.lock().unwrap()` in one statement, or a guard in a block of
\* its own: the mutex is locked and unlocked with no other lock in between
Access(l) == << Lock(l), Unlock(l) >>

\* App::update: get_samples() and is_playing(), each under the player mutex
UpdateLocks ==
  << Lock("audio_player") >> \o Access("sample_buffer") \o << Unlock("audio_player") >>
    \o << Lock("audio_player") >> \o Access("is_playing") \o << Unlock("audio_player") >>

\* App::render: the theme; render_track_info (the library, the player in it
\* for get_position() and get_duration()); render_album_list and
\* render_track_list
RenderLocks ==
  Access("app_state")
    \o << Lock("music_library"), Lock("audio_player") >>
    \o Access("current_position") \o Access("duration")
    \o << Unlock("audio_player"), Unlock("music_library") >>
    \o Access("music_library") \o Access("music_library")

\* App::toggle_playback: is_playing(), then pause() or play()
TogglePlaybackLocks ==
  << Lock("audio_player") >> \o Access("is_playing") \o Access("is_playing")
    \o << Unlock("audio_player") >>

\* App::select_item.  No current track; load_file() returns Err; load_file()
\* returns Ok, with or without a write of the duration, and play() follows
SelectItemLocks ==
  { Access("music_library"),
    Access("music_library") \o << Lock("audio_player"), Unlock("audio_player") >>,
    Access("music_library") \o << Lock("audio_player") >> \o Access("duration")
      \o << SpawnDecode >> \o Access("is_playing") \o << Unlock("audio_player") >>,
    Access("music_library") \o << Lock("audio_player"), SpawnDecode >>
      \o Access("is_playing") \o << Unlock("audio_player") >> }

\* what the foreground loop calls: render, the key handlers (navigate_*,
\* cycle_theme and the toggles of the application state), update
ForegroundLocks ==
  { UpdateLocks, RenderLocks, TogglePlaybackLocks,
    Access("music_library"), Access("app_state") } \cup SelectItemLocks

\* an iteration of the decode loop that holds the queue while it writes the
\* position
DecodeLocksNested ==
  { Access("is_playing"),
    Access("is_playing")
      \o << Lock("sample_buffer"), Lock("current_position"),
            Unlock("current_position"), Unlock("sample_buffer") >>,
    Access("is_playing") \o << Done >> }

\* An iteration of the decode loop: the flag is read, and then the thread
\* sleeps, or gets nothing to append (another track's packet, a reset); or
\* it appends a block and writes the position; or it breaks
DecodeLocks ==
  { Access("is_playing"),
    Access("is_playing") \o Access("sample_buffer") \o Access("current_position"),
    Access("is_playing") \o << Done >> }

MutexThreads == 1 .. Len(mutex.todo)

Todo(t, script) == [mutex EXCEPT !.todo[t] = script]

\* the foreground loop calls render, a key handler or update
ForegroundCalls ==
  /\ mutex.todo[Ui] = << >>
  /\ \E script \in ForegroundLocks :
       /\ (\E i \in 1 .. Len(script) : script[i] = SpawnDecode) =>
            Len(mutex.todo) - 1 < MaxLoads + 1
       /\ mutex' = Todo(Ui, script)

\* a decode thread starts an iteration of its loop
DecodeIterates(t) ==
  /\ t # Ui
  /\ mutex.todo[t] = << >>
  /\ \E script \in DecodeLocks : mutex' = Todo(t, script)

\* mutex.lock(): the thread waits until no thread holds it
Acquire(t) ==
  /\ mutex.todo[t] # << >>
  /\ Head(mutex.todo[t])[1] = "lock"
  /\ mutex.holder[Head(mutex.todo[t])[2]] = Free
  /\ mutex' = [mutex EXCEPT !.holder[Head(mutex.todo[t])[2]] = t, !.todo[t] = Tail(@)]

\* the guard is dropped
Release(t) ==
  /\ mutex.todo[t] # << >>
  /\ Head(mutex.todo[t])[1] = "unlock"
  /\ mutex.holder[Head(mutex.todo[t])[2]] = t
  /\ mutex' = [mutex EXCEPT !.holder[Head(mutex.todo[t])[2]] = Free, !.todo[t] = Tail(@)]

\* thread::spawn in load_file
Spawns(t) ==
  /\ mutex.todo[t] # << >>
  /\ Head(mutex.todo[t]) = SpawnDecode
  /\ mutex' = [mutex EXCEPT !.todo = Append([@ EXCEPT ![t] = Tail(@)], << >>)]

MutexStep(t) ==
  \/ t = Ui /\ ForegroundCalls
  \/ DecodeIterates(t)
  \/ Acquire(t)
  \/ Release(t)
  \/ Spawns(t)

\* the application as it is started: no mutex is held, and the foreground
\* loop is the only thread
InitMutex ==
  /\ PlayerNew
  /\ AnalyzerNew
  /\ run_app = "poll"
  /\ keys = 0
  /\ call = NoCall
  /\ stream = << >>
  /\ library = LibraryNew
  /\ mutex = [holder |-> [l \in Locks |-> Free], todo |-> << << >> >>]

NextMutex ==
  /\ \E t \in MutexThreads : MutexStep(t)
  /\ UNCHANGED << player, analyzer, foreground, call, stream, library >>

SpecMutex == InitMutex /\ [][NextMutex]_vars

\* ------------------------------------------------ Visualizer::add_samples
\* keeps the oldest samples instead: the sample just pushed is popped again
PushSampleDropNewest(buffer, sample) ==
  LET b == Append(buffer, sample)
  IN IF Len(b) > fft_size THEN SubSeq(b, 1, Len(b) - 1) ELSE b

\* one iteration: push_back(sample); if len() > fft_size { pop_front() }
PushSample(buffer, sample) ==
  LET b == Append(buffer, sample)
  IN IF Len(b) > fft_size THEN Tail(b) ELSE b

\* `for &sample in samples`: the iterations in slice order, evaluated by
\* halves of the slice: the buffer after the first half, then the second
\* half on it (the test on `first` has one outcome; it makes the evaluation
\* finish the first half before it starts the second)
RECURSIVE AddSamplesTo(_, _)
AddSamplesTo(buffer, samples) ==
  IF Len(samples) = 0 THEN buffer
  ELSE IF Len(samples) = 1 THEN PushSample(buffer, samples[1])
  ELSE LET h == Len(samples) \div 2
           first == AddSamplesTo(buffer, SubSeq(samples, 1, h))
       IN IF Len(first) >= 0
          THEN AddSamplesTo(first, SubSeq(samples, h + 1, Len(samples)))
          ELSE first

\* ---------------------------------------------- Visualizer::update_spectrum
\* the early return left out
TooFewSamplesProceeds(v) == FALSE

\* an early return that is also taken on a ring of exactly fft_size samples
TooFewSamplesAtFull(v) == Len(v.sample_buffer) <= fft_size

\* if self.sample_buffer.len() < self.fft_size { return; }
TooFewSamples(v) == Len(v.sample_buffer) < fft_size

\* sample_buffer.iter().take(fft_size): the samples the transform is fed
Window(v) ==
  SubSeq(v.sample_buffer, 1,
         IF Len(v.sample_buffer) < fft_size THEN Len(v.sample_buffer) ELSE fft_size)

\* The magnitudes |c| of the first fft_size / 2 bins of the transform of a
\* window are an input of the model; what is kept of the transform is that a
\* window holding a NaN gives NaN in every bin and a window of zeros gives
\* zero in every bin.  A spectrum is a sequence: bin b is at index b + 1.
Bins == 1 .. fft_size \div 2

Spectrum(peaks) ==
  [ i \in Bins |->
      IF \E p \in peaks : i - 1 \in p.lo .. p.hi
      THEN (CHOOSE p \in peaks : i - 1 \in p.lo .. p.hi).mag
      ELSE Q(0, 1) ]

ZeroSpectrum == [i \in Bins |-> Q(0, 1)]
NaNSpectrum == [i \in Bins |-> QNaN]

\* the spectra of the runs, by name: a bass line, a bass chord, a treble
\* band over a weak bass line, zero and NaN in every bin
Magnitudes(name) ==
  CASE name = "line" -> Spectrum({ [lo |-> 3, hi |-> 3, mag |-> Q(5, 1)] })
    [] name = "chord" -> Spectrum({ [lo |-> 1, hi |-> 4, mag |-> Q(2, 1)] })
    [] name = "band" -> Spectrum({ [lo |-> 512, hi |-> 543, mag |-> Q(100, 1)],
                                   [lo |-> 2, hi |-> 2, mag |-> Q(9, 1)] })
    [] name = "zero" -> ZeroSpectrum
    [] name = "nan" -> NaNSpectrum

ToneSpectra == { "line", "chord", "band" }
AllSpectra == ToneSpectra \cup { "zero", "nan" }

\* the names of the spectra the transform may give for a window
FftOutputs(window) ==
  IF \E i \in 1 .. Len(window) : window[i].val.nan THEN { "nan" }
  ELSE IF \A i \in 1 .. Len(window) : window[i].val.v = 0 THEN { "zero" }
  ELSE ToneSpectra

\* magnitudes.iter().fold(0.0, |a, &b| a.max(b)) over indexes lo .. hi
RECURSIVE FoldMax(_, _, _)
FoldMax(mags, lo, hi) ==
  IF lo > hi THEN Q(0, 1)
  ELSE IF lo = hi THEN QMax(Q(0, 1), mags[lo])
  ELSE LET h == (lo + hi) \div 2
       IN QMax(FoldMax(mags, lo, h), FoldMax(mags, h + 1, hi))

\* update_spectrum as it would be without the normalization
NormalizeLeftOut(mags) == mags

\* if max_magnitude > 0.0 { for mag in &mut magnitudes { *mag /= max_magnitude } }
Normalize(mags) ==
  LET max_magnitude == FoldMax(mags, 1, Len(mags))
  IN IF QLess(Q(0, 1), max_magnitude)
     THEN [i \in 1 .. Len(mags) |-> QDiv(mags[i], max_magnitude)]
     ELSE mags

\* magnitudes[start..end].iter().sum(), for the indexes lo .. hi
RECURSIVE Sum(_, _, _)
Sum(mags, lo, hi) ==
  IF lo > hi THEN Q(0, 1)
  ELSE IF lo = hi THEN mags[lo]
  ELSE LET h == (lo + hi) \div 2
       IN QAdd(Sum(mags, lo, h), Sum(mags, h + 1, hi))

\* let bin_per_bar = magnitudes.len() / bar_count
bin_per_bar(bars, magnitudes) == Len(magnitudes) \div Len(bars)

\* let start_bin = i * bin_per_bar
start_bin(i, bars, magnitudes) == i * bin_per_bar(bars, magnitudes)

\* a bar that reads on into the first bin of the next bar
end_bin_into_next(i, bars, magnitudes) ==
  LET next == (i + 1) * bin_per_bar(bars, magnitudes) + 1
  IN IF next < Len(magnitudes) THEN next ELSE Len(magnitudes)

\* let end_bin = ((i + 1) * bin_per_bar).min(magnitudes.len())
end_bin(i, bars, magnitudes) ==
  LET next == (i + 1) * bin_per_bar(bars, magnitudes)
  IN IF next < Len(magnitudes) THEN next ELSE Len(magnitudes)

\* update_frequency_bars: bar i smooths the mean of the bins
\* magnitudes[start_bin..end_bin]
UpdateFrequencyBars(bars, magnitudes) ==
  [ j \in 1 .. Len(bars) |->
      LET i == j - 1
          start == start_bin(i, bars, magnitudes)
          end == end_bin(i, bars, magnitudes)
          avg == IF start < end
                 THEN QDiv(Sum(magnitudes, start + 1, end), Q(end - start, 1))
                 ELSE Q(0, 1)
      IN QAdd(QMul(bars[j], Q(7, 10)), QMul(avg, Q(3, 10))) ]

\* the beat threshold, and the decay of a tick without a beat
threshold == Q(3, 10)
\* a decay that is no multiplication by 0.95
DecayByStep(beat_intensity) == QSub(beat_intensity, Q(5, 100))

Decay(beat_intensity) == QMul(beat_intensity, Q(95, 100))

\* magnitudes[0 .. len / 8].iter().sum().sqrt()
BassEnergy(magnitudes) == QSqrt(Sum(magnitudes, 1, Len(magnitudes) \div 8))

\* a beat on the bass energy alone, whenever the last one was
BeatTriggersOnEnergy(v, magnitudes, t) == QLess(threshold, BassEnergy(magnitudes))

\* a beat already when time_since_last_beat is 0.2
BeatTriggersFromFifth(v, magnitudes, t) ==
  /\ QLess(threshold, BassEnergy(magnitudes))
  /\ t - v.last_beat_time >= 2

\* bass_energy > threshold && time_since_last_beat > 0.2, at clock reading t
BeatTriggers(v, magnitudes, t) ==
  /\ QLess(threshold, BassEnergy(magnitudes))
  /\ t - v.last_beat_time > 2

\* detect_beat, at clock reading t
DetectBeat(v, magnitudes, t) ==
  IF BeatTriggers(v, magnitudes, t)
  THEN [v EXCEPT !.beat_intensity = QMin(QSub(BassEnergy(magnitudes), threshold), Q(1, 1)),
                 !.last_beat_time = t]
  ELSE [v EXCEPT !.beat_intensity = Decay(@)]

\* update_rainbow_hue
RotationSpeed(v) == QAdd(Q(2, 100), QMul(v.beat_intensity, Q(1, 10)))
UpdateRainbowHue(v) ==
  [v EXCEPT !.rainbow_hue = QRem(QAdd(@, RotationSpeed(v)), 360)]

\* the bars, the beat and the hue of a tick, the hue before the beat
AnalyzeHueFirst(v, magnitudes, t) ==
  LET bars == [v EXCEPT !.spectrum_bars = UpdateFrequencyBars(@, magnitudes)]
  IN DetectBeat(UpdateRainbowHue(bars), magnitudes, t)

\* update_frequency_bars(&magnitudes); detect_beat(&magnitudes);
\* update_rainbow_hue()
Analyze(v, magnitudes, t) ==
  LET bars == [v EXCEPT !.spectrum_bars = UpdateFrequencyBars(@, magnitudes)]
  IN UpdateRainbowHue(DetectBeat(bars, magnitudes, t))

\* update_spectrum() on v, the transform giving the magnitudes mags and the
\* clock reading t
UpdateSpectrumOf(v, mags, t) ==
  IF TooFewSamples(v) THEN v ELSE Analyze(v, Normalize(mags), t)

\* ------------------------------------------------------ the analyzer alone
\* add_samples(samples)
AddSamples(samples) ==
  /\ visualizer' = [visualizer EXCEPT !.sample_buffer = AddSamplesTo(@, samples)]
  /\ added' = Append(added, samples)
  /\ UNCHANGED << now, ticks >>

\* update_spectrum(); mags names what the transform gives for the window, and
\* detect_beat reads the clock `elapsed` after it was last read
UpdateSpectrum(elapsed, mags) ==
  /\ now' = IF TooFewSamples(visualizer) THEN now ELSE now + elapsed
  /\ visualizer' = UpdateSpectrumOf(visualizer, Magnitudes(mags), now')
  /\ ticks' = ticks + 1
  /\ UNCHANGED added

\* slices passed to add_samples(): a ramp of n samples, n samples of silence,
\* and one NaN
Ramp(n) == [i \in 1 .. n |-> [val |-> F((i % 7) - 3)]]
Silence(n) == [i \in 1 .. n |-> [val |-> F(0)]]
Slices == { Ramp(fft_size - 1), Ramp(2), << [val |-> NaN] >> }

\* the time between two readings of the clock, in tenths of a second
Elapsed == { 1, 3 }

\* The analyzer after add_samples() of a window of silence and 17999
\* update_spectrum() calls a tenth of a second apart: each call added 0.02
\* to the hue, and nothing else changed.  The histories start here.
AnalyzerAfterSilence ==
  /\ visualizer = [VisualizerNew EXCEPT !.sample_buffer = Silence(fft_size),
                                        !.rainbow_hue = Q(35998, 100)]
  /\ now = 17999
  /\ added = << Silence(fft_size) >>
  /\ ticks = 0

InitVisualizer ==
  /\ AnalyzerNew \/ AnalyzerAfterSilence
  /\ PlayerNew
  /\ run_app = "poll"
  /\ keys = 0
  /\ call = NoCall
  /\ stream = << >>
  /\ mutex = NoMutex
  /\ library = LibraryNew

NextVisualizer ==
  \/ /\ Len(added) + ticks < MaxCalls
     /\ \E samples \in Slices : AddSamples(samples)
     /\ UNCHANGED << player, foreground, call, stream, mutex, library >>
  \/ /\ Len(added) + ticks < MaxCalls
     /\ \E elapsed \in Elapsed, mags \in FftOutputs(Window(visualizer)) :
          UpdateSpectrum(elapsed, mags)
     /\ UNCHANGED << player, foreground, call, stream, mutex, library >>

SpecVisualizer == InitVisualizer /\ [][NextVisualizer]_vars

\* ------------------------------------- update_spectrum on a given frame
\* The transform of the window, given: its largest magnitude `mag` is at bin
\* `peak`, and when `other` is Some(b), bin b has 9/16 of it; every other
\* bin is zero.  With mag = 0 the frame is zero in every bin.
Levels == { Q(0, 1), Q(1, 10000), Q(1, 1), Q(10000, 1) }
PeakBins == { 0, 127, 128, 1023 }
OtherBins == { None, Some(1), Some(500) }

Frame(peak, mag, other) ==
  Spectrum({ [lo |-> peak, hi |-> peak, mag |-> mag] }
             \cup IF other = None THEN { }
                  ELSE { [lo |-> other[1], hi |-> other[1], mag |-> QMul(mag, Q(9, 16))] })

FrameCall(peak, mag, other, elapsed) ==
  [fn |-> "update_spectrum", args |-> << peak, mag, other, elapsed >>, ret |-> << >>]

\* A new analyzer after one add_samples() of a full window, of silence when
\* the frame is the zero frame, and the update_spectrum() call to come
InitFrame ==
  /\ PlayerNew
  /\ run_app = "poll"
  /\ keys = 0
  /\ stream = << >>
  /\ mutex = NoMutex
  /\ library = LibraryNew
  /\ now = 0
  /\ ticks = 0
  /\ \E peak \in PeakBins, mag \in Levels, other \in OtherBins, elapsed \in { 1, 2, 3 } :
       /\ call = FrameCall(peak, mag, other, elapsed)
       /\ \E window \in { IF mag = Q(0, 1) THEN Silence(fft_size) ELSE Ramp(fft_size) } :
            /\ visualizer = [VisualizerNew EXCEPT !.sample_buffer = window]
            /\ added = << window >>

\* update_spectrum(), the transform giving the frame of the call and the
\* clock read `elapsed` after the construction
UpdateSpectrumOnFrame ==
  /\ call.fn = "update_spectrum" /\ call.ret = << >>
  /\ now' = now + call.args[4]
  /\ visualizer' = UpdateSpectrumOf(visualizer,
                                    Frame(call.args[1], call.args[2], call.args[3]), now')
  /\ ticks' = ticks + 1
  /\ call' = [call EXCEPT !.ret = << "()" >>]
  /\ UNCHANGED << player, added, foreground, stream, mutex, library >>

NextFrame == UpdateSpectrumOnFrame
SpecFrame == InitFrame /\ [][NextFrame]_vars

\* --------------------------------------------------------- MusicLibrary
\* Album keys "artist - album", numbered in the order of their display names
AlbumKeys == 1 .. 3

\* A file of a directory: its extension, and what TrackMetadata::from_file
\* makes of it: an error, or the metadata, of which the album key counts
DirFiles ==
  { [extension |-> "txt", metadata |-> None], [extension |-> "mp3", metadata |-> None] }
    \cup { [extension |-> "mp3", metadata |-> Some(k)] : k \in AlbumKeys }

\* Directories, the files in the order WalkDir yields them
Directories == SeqsUpTo(DirFiles, MaxFiles)

supported_extensions == { "mp3", "flac", "wav", "ogg", "m4a", "aac" }

\* The positions of the files of a directory that become tracks of album k
\* (all track numbers are None, so the stable sort of add_track keeps the
\* order they were pushed in)
TracksOf(dir, k) ==
  SelectSeq([p \in 1 .. Len(dir) |-> p],
            LAMBDA p : /\ dir[p].extension \in supported_extensions
                       /\ dir[p].metadata = Some(k))

Album(dir, k) == [name |-> k, tracks |-> TracksOf(dir, k)]

\* scan_directory(): the albums that got a track, sorted by display name,
\* and both indices reset
scan_directory(lib, dir) ==
  LET album_map == SelectSeq([k \in AlbumKeys |-> k], LAMBDA k : TracksOf(dir, k) # << >>)
  IN  [albums |-> [i \in 1 .. Len(album_map) |-> Album(dir, album_map[i])],
       current_album_index |-> 0,
       current_track_index |-> 0]

\* self.albums.get(self.current_album_index)
get_current_album(lib) ==
  IF lib.current_album_index < Len(lib.albums)
  THEN Some(lib.albums[lib.current_album_index + 1])
  ELSE None

\* .and_then(|album| album.tracks.get(self.current_track_index))
get_current_track(lib) ==
  IF get_current_album(lib) = None THEN None
  ELSE IF lib.current_track_index < Len(get_current_album(lib)[1].tracks)
       THEN Some(get_current_album(lib)[1].tracks[lib.current_track_index + 1])
       ELSE None

\* next_album as it would be without the reset of the track index
next_album_keeps_track(lib) ==
  IF lib.albums # << >>
  THEN [lib EXCEPT !.current_album_index = (lib.current_album_index + 1) % Len(lib.albums)]
  ELSE lib

next_album(lib) ==
  IF lib.albums # << >>
  THEN [lib EXCEPT !.current_album_index = (lib.current_album_index + 1) % Len(lib.albums),
                   !.current_track_index = 0]
  ELSE lib

prev_album(lib) ==
  IF lib.albums # << >>
  THEN [lib EXCEPT !.current_album_index =
                      IF lib.current_album_index = 0 THEN Len(lib.albums) - 1
                      ELSE lib.current_album_index - 1,
                   !.current_track_index = 0]
  ELSE lib

next_track(lib) ==
  IF get_current_album(lib) # None /\ get_current_album(lib)[1].tracks # << >>
  THEN [lib EXCEPT !.current_track_index =
                      (lib.current_track_index + 1) % Len(get_current_album(lib)[1].tracks)]
  ELSE lib

prev_track(lib) ==
  IF get_current_album(lib) # None /\ get_current_album(lib)[1].tracks # << >>
  THEN [lib EXCEPT !.current_track_index =
                      IF lib.current_track_index = 0
                      THEN Len(get_current_album(lib)[1].tracks) - 1
                      ELSE lib.current_track_index - 1]
  ELSE lib

set_album(lib, index) ==
  IF index < Len(lib.albums)
  THEN [lib EXCEPT !.current_album_index = index, !.current_track_index = 0]
  ELSE lib

set_track(lib, index) ==
  IF get_current_album(lib) # None /\ index < Len(get_current_album(lib)[1].tracks)
  THEN [lib EXCEPT !.current_track_index = index]
  ELSE lib

\* The index arguments: every index of an album or track there can be, and
\* one past them
Indices == 0 .. MaxFiles

LibraryCall(fn, args) == [fn |-> fn, args |-> args, ret |-> << "()" >>]

\* One method call on the library; `call` keeps which
LibraryDoes(fn, args, lib) ==
  /\ library' = lib
  /\ call' = LibraryCall(fn, args)
  /\ UNCHANGED << player, analyzer, foreground, stream, mutex >>

ScanDirectory == \E dir \in Directories :
  LibraryDoes("scan_directory", << dir >>, scan_directory(library, dir))
NextAlbum == LibraryDoes("next_album", << >>, next_album(library))
PrevAlbum == LibraryDoes("prev_album", << >>, prev_album(library))
NextTrack == LibraryDoes("next_track", << >>, next_track(library))
PrevTrack == LibraryDoes("prev_track", << >>, prev_track(library))
SetAlbum == \E index \in Indices :
  LibraryDoes("set_album", << index >>, set_album(library, index))
SetTrack == \E index \in Indices :
  LibraryDoes("set_track", << index >>, set_track(library, index))

InitLibrary ==
  /\ PlayerNew /\ AnalyzerNew /\ run_app = "poll" /\ keys = 0 /\ stream = << >>
  /\ mutex = NoMutex
  /\ call = NoCall
  /\ library = LibraryNew

NextLibrary ==
  \/ ScanDirectory
  \/ NextAlbum
  \/ PrevAlbum
  \/ NextTrack
  \/ PrevTrack
  \/ SetAlbum
  \/ SetTrack

SpecLibrary == InitLibrary /\ [][NextLibrary]_vars

\* ------------------------------------------------------ the foreground loop
\* What get_current_track_path() returns when Enter is pressed: None (no
\* track; main never scans a directory, so this is what the binary sees), a
\* file that load_file() fails on at any of its steps, or a file that loads.
Tracks ==
  { None } \cup
  { Some(f) : f \in { g \in Files : g.err # "none" \/ g.native = OutputRate } }

\* terminal.draw(), event::poll() or event::read() returns Err: `?` returns it
TerminalError ==
  /\ run_app = "poll"
  /\ run_app' = "Err"
  /\ UNCHANGED << player, analyzer, keys, call, stream, mutex, library >>

\* no event within 100 ms, an event that is no key, or a key that neither
\* ends the loop nor calls the player (arrows, t, r, s, d, q without Ctrl, ...)
NoPlayerKey ==
  /\ run_app = "poll"
  /\ run_app' = "update"
  /\ UNCHANGED << player, analyzer, keys, call, stream, mutex, library >>

\* Ctrl-q: return Ok(())
KeyQuit ==
  /\ run_app = "poll"
  /\ keys < MaxKeys
  /\ keys' = keys + 1
  /\ run_app' = "Ok"
  /\ UNCHANGED << player, analyzer, call, stream, mutex, library >>

\* space: app.toggle_playback().await?, which returns Ok(())
KeySpace ==
  /\ run_app = "poll"
  /\ keys < MaxKeys
  /\ keys' = keys + 1
  /\ IF is_playing THEN Pause ELSE Play
  /\ run_app' = "update"
  /\ UNCHANGED << analyzer, call, stream, mutex, library >>

\* an Enter whose select_item goes on to play() whatever load_file() returned
KeyEnterPlaysAnyway(track) ==
  /\ run_app = "poll"
  /\ keys < MaxKeys
  /\ keys' = keys + 1
  /\ IF track = None
     THEN run_app' = "update" /\ UNCHANGED player
     ELSE Load(track[1], MaxLoads) /\ run_app' = "play"
  /\ UNCHANGED << analyzer, call, stream, mutex, library >>

\* Enter: app.select_item().await?, up to the end of load_file().  With no
\* current track nothing is called; an Err of load_file() is returned by
\* select_item's `?` and then by run_app's `?`
KeyEnter(track) ==
  /\ run_app = "poll"
  /\ keys < MaxKeys
  /\ keys' = keys + 1
  /\ IF track = None
     THEN run_app' = "update" /\ UNCHANGED player
     ELSE /\ Load(track[1], MaxLoads)
          /\ run_app' = IF LoadError(track[1]) # "none" THEN "Err" ELSE "play"
  /\ UNCHANGED << analyzer, call, stream, mutex, library >>

\* select_item after load_file() returned Ok: player.play()
SelectPlay ==
  /\ run_app = "play"
  /\ Play
  /\ run_app' = "update"
  /\ UNCHANGED << analyzer, keys, call, stream, mutex, library >>

\* an update() that drops what get_samples() returned
UpdateDropsSamples ==
  /\ run_app = "update"
  /\ GetSamples
  /\ UNCHANGED << visualizer, now, added >>
  /\ ticks' = IF ticks < MaxTicks THEN ticks + 1 ELSE ticks
  /\ run_app' = "poll"
  /\ UNCHANGED << keys, call, stream, mutex, library >>

\* app.update(): get_samples(), add_samples(&samples), update_spectrum();
\* then the next iteration of the loop.  v is the analyzer after
\* add_samples().  (The cassette update() also updates is not part of the
\* model.)
Update ==
  /\ run_app = "update"
  /\ GetSamples
  /\ LET samples == sample_buffer
     IN /\ \E v \in { [visualizer EXCEPT !.sample_buffer = AddSamplesTo(@, samples)] } :
             \E elapsed \in Elapsed, mags \in FftOutputs(Window(v)) :
               /\ now' = IF TooFewSamples(v) THEN now ELSE now + elapsed
               /\ visualizer' = UpdateSpectrumOf(v, Magnitudes(mags), now')
        /\ added' = IF samples = << >> THEN added ELSE Append(added, samples)
  /\ ticks' = IF ticks < MaxTicks THEN ticks + 1 ELSE ticks
  /\ run_app' = "poll"
  /\ UNCHANGED << keys, call, stream, mutex, library >>

\* one step of the foreground loop
Foreground ==
  \/ TerminalError
  \/ NoPlayerKey
  \/ KeyQuit
  \/ KeySpace
  \/ \E track \in Tracks : KeyEnter(track)
  \/ SelectPlay
  \/ Update

\* The application: the foreground loop and the decode threads.
NextApp ==
  \/ Foreground
  \/ UNCHANGED << analyzer, foreground, call, stream, mutex, library >> /\ \E t \in Threads : ThreadStep(t)

SpecApp == Init /\ [][NextApp]_vars

\* The loop is a thread of its own that is always scheduled again, and no
\* step of it waits for more than 100 ms: some step of it is taken whenever
\* it has not returned.
SpecAppFair == SpecApp /\ WF_vars(Foreground)

\* --------------------------------------- the decode loop: format conversion
\* The integer arms of `match audio_buf`.  A decoded sample of up to 32 bits
\* does not fit a TLC integer, so a sample is the pair [hi, lo] that stands
\* for hi * 65536 + lo with lo in 0 .. 65535 (hi < 0 for a negative sample).
Formats == { "U8", "U16", "U24", "U32", "S8", "S16", "S24", "S32" }
Bits(format) ==
  CASE format \in { "U8", "S8" } -> 8
    [] format \in { "U16", "S16" } -> 16
    [] format \in { "U24", "S24" } -> 24
    [] format \in { "U32", "S32" } -> 32
Signed(format) == format \in { "S8", "S16", "S24", "S32" }

Word(hi, lo) == [hi |-> hi, lo |-> lo]
WordOf(i) == Word(i \div 65536, i % 65536)
WordNeg(w) == IF w.lo = 0 THEN Word(-w.hi, 0) ELSE Word(-w.hi - 1, 65536 - w.lo)
WordSub(a, b) ==
  IF a.lo >= b.lo THEN Word(a.hi - b.hi, a.lo - b.lo)
  ELSE Word(a.hi - b.hi - 1, a.lo + 65536 - b.lo)

\* number of bits of a positive integer
RECURSIVE BitLength(_)
BitLength(i) == IF i = 0 THEN 0 ELSE 1 + BitLength(i \div 2)

\* An f32 that is a multiple of a power of two: [m, e] stands for m / 2^e
\* (m * 2^(-e) when e < 0).  Every value of the conversion is one, with
\* |m| <= 2^24.
Dyadic(m, e) == [m |-> m, e |-> e]

\* `s as f32` of a non-negative sample: exact below 2^24, else rounded to 24
\* significant bits, to nearest and ties to even
AsF32Magnitude(w) ==
  IF w.hi < 256 THEN Dyadic(w.hi * 65536 + w.lo, 0)
  ELSE LET k == BitLength(w.hi) - 8
           kept == w.hi * 2^(16 - k) + w.lo \div 2^k
           rest == w.lo % 2^k
           half == 2^(k - 1)
           up == rest > half \/ (rest = half /\ kept % 2 = 1)
       IN Dyadic(IF up THEN kept + 1 ELSE kept, -k)

\* `s as f32`
AsF32(w) ==
  IF w.hi >= 0 THEN AsF32Magnitude(w)
  ELSE LET a == AsF32Magnitude(WordNeg(w)) IN Dyadic(-a.m, a.e)

\* the arm of a format: `s as f32 / 2^(N-1)`, and `- 1.0` in the U8 arm only.
\* Both are exact in f32: a division by a power of two, and (s - 128) / 128.
Convert(format, s) ==
  LET f == AsF32(s)
      scaled == Dyadic(f.m, f.e + Bits(format) - 1)
  IN IF format = "U8" THEN Dyadic(scaled.m - 2^scaled.e, scaled.e) ELSE scaled

\* the samples a buffer of a format can hold that are converted here: all
\* of an 8-bit format, and of a wider format the ends and the middle of its
\* range and, for 32 bits, values that `as f32` rounds
UnsignedSamples(n) ==
  IF n = 8 THEN { WordOf(i) : i \in 0 .. 255 }
  ELSE IF n = 16 THEN { WordOf(i) : i \in { 0, 1, 32767, 32768, 32769, 65535 } }
  ELSE IF n = 24 THEN { WordOf(i) : i \in { 0, 1, 8388607, 8388608, 8388609, 16777215 } }
  ELSE { Word(0, 0), Word(0, 1), Word(256, 1), Word(256, 3), Word(32767, 65535),
         Word(32768, 0), Word(32768, 129), Word(65535, 65407), Word(65535, 65535) }
SignedSamples(n) ==
  IF n = 8 THEN { WordOf(i) : i \in -128 .. 127 }
  ELSE IF n = 16 THEN { WordOf(i) : i \in { -32768, -32767, -1, 0, 1, 32767 } }
  ELSE IF n = 24 THEN { WordOf(i) : i \in { -8388608, -8388607, -1, 0, 1, 8388607 } }
  ELSE { Word(-32768, 0), Word(-32768, 1), Word(-257, 65535), Word(-1, 65535),
         Word(0, 0), Word(0, 1), Word(256, 1), Word(32767, 65408), Word(32767, 65535) }
SamplesOf(format) ==
  IF Signed(format) THEN SignedSamples(Bits(format)) ELSE UnsignedSamples(Bits(format))

\* One sample of one decoded buffer is converted.
ConvertCall(format, s) == [fn |-> "convert", args |-> << format, s >>, ret |-> << >>]
InitConvert ==
  /\ PlayerNew /\ AnalyzerNew /\ run_app = "poll" /\ keys = 0 /\ stream = << >>
  /\ mutex = NoMutex
  /\ library = LibraryNew
  /\ \E format \in Formats : \E s \in SamplesOf(format) : call = ConvertCall(format, s)

ConvertSample ==
  /\ call.fn = "convert" /\ call.ret = << >>
  /\ call' = [call EXCEPT !.ret = << Convert(call.args[1], call.args[2]) >>]
  /\ UNCHANGED << player, analyzer, foreground, stream, mutex, library >>

NextConvert == ConvertSample
SpecConvert == InitConvert /\ [][NextConvert]_vars

\* --------------------------------------------- the decode loop: resampling
\* The decode of a 44100 Hz source, counted: how many frames each packet
\* held and how many samples the loop appended to the queue for it.
SourceRate == 44100

\* argument 4 of SincFixedIn::new: the number of input frames of one
\* process() call
chunk_size == 256

\* frames of the first channel of one decoded packet: as many as the
\* resampler's chunk, or an MPEG layer III frame
PacketSizes == { chunk_size, 1152 }

\* What process() can return.  The crate is not part of the repository:
\* Err (the input is one channel, vec![f32_samples], for a resampler built
\* for 256, and holds as many frames as the packet), or Ok with the output
\* of one chunk, chunk_size * 48000 / 44100 frames rounded down or up.
ResampledLengths ==
  LET frames == chunk_size * OutputRate
  IN { frames \div SourceRate, frames \div SourceRate + 1 }

DecodeCall(packets, appended) == [fn |-> "decode", args |-> packets, ret |-> << appended >>]
InitResample ==
  /\ PlayerNew /\ AnalyzerNew /\ run_app = "poll" /\ keys = 0 /\ stream = << >>
  /\ mutex = NoMutex
  /\ library = LibraryNew
  /\ call = DecodeCall(<< >>, 0)

\* one packet with process() = Ok(resampled): f32_samples = resampled[0],
\* and the loop appends all of it
ProcessOk(p, out) ==
  /\ call.fn = "decode" /\ Len(call.args) < MaxPackets
  /\ call' = DecodeCall(Append(call.args, p), call.ret[1] + out)
  /\ UNCHANGED << player, analyzer, foreground, stream, mutex, library >>

\* one packet with process() = Err(_): f32_samples stays the decoded
\* channel, and the loop appends all of it
ProcessErr(p) ==
  /\ call.fn = "decode" /\ Len(call.args) < MaxPackets
  /\ call' = DecodeCall(Append(call.args, p), call.ret[1] + p)
  /\ UNCHANGED << player, analyzer, foreground, stream, mutex, library >>

NextResample ==
  \/ \E p \in PacketSizes, out \in ResampledLengths : ProcessOk(p, out)
  \/ \E p \in PacketSizes : ProcessErr(p)
SpecResample == InitResample /\ [][NextResample]_vars

\* ------------------------------------------------ Visualizer::hsv_to_rgb
QAbs(a) == IF a.nan THEN QNaN ELSE Q(Abs(a.n), a.d)

\* `x as u8`: toward zero, saturating, 0 for NaN
AsU8(a) ==
  IF a.nan \/ a.n < 0 THEN 0
  ELSE IF a.n \div a.d > 255 THEN 255
  ELSE a.n \div a.d

\* an hsv_to_rgb whose fourth sector is (0.0, c, x)
hsv_to_rgb_sector_swapped(h, s, v) ==
  LET c == QMul(v, s)
      x == QMul(c, QSub(Q(1, 1), QAbs(QSub(QRem(QDiv(h, Q(60, 1)), 2), Q(1, 1)))))
      m == QSub(v, c)
      zero == Q(0, 1)
      rgb == IF QLess(h, Q(60, 1)) THEN << c, x, zero >>
             ELSE IF QLess(h, Q(120, 1)) THEN << x, c, zero >>
             ELSE IF QLess(h, Q(180, 1)) THEN << zero, c, x >>
             ELSE IF QLess(h, Q(240, 1)) THEN << zero, c, x >>
             ELSE IF QLess(h, Q(300, 1)) THEN << x, zero, c >>
             ELSE << c, zero, x >>
  IN [ i \in 1 .. 3 |-> AsU8(QMul(QAdd(rgb[i], m), Q(255, 1))) ]

\* hsv_to_rgb(h, s, v), for h >= 0 (`%` is then the remainder of the model)
hsv_to_rgb(h, s, v) ==
  LET c == QMul(v, s)
      x == QMul(c, QSub(Q(1, 1), QAbs(QSub(QRem(QDiv(h, Q(60, 1)), 2), Q(1, 1)))))
      m == QSub(v, c)
      zero == Q(0, 1)
      rgb == IF QLess(h, Q(60, 1)) THEN << c, x, zero >>
             ELSE IF QLess(h, Q(120, 1)) THEN << x, c, zero >>
             ELSE IF QLess(h, Q(180, 1)) THEN << zero, c, x >>
             ELSE IF QLess(h, Q(240, 1)) THEN << zero, x, c >>
             ELSE IF QLess(h, Q(300, 1)) THEN << x, zero, c >>
             ELSE << c, zero, x >>
  IN [ i \in 1 .. 3 |-> AsU8(QMul(QAdd(rgb[i], m), Q(255, 1))) ]

\* The arguments of the calls: hues every 7.5 degrees of [0, 360) and
\* saturations and values every quarter of [0, 1].  On them every f32
\* operation of hsv_to_rgb is exact, so the fractions are the f32 values.
Hues == { Q(15 * i, 2) : i \in 0 .. 47 }
Quarters == { Q(i, 4) : i \in 0 .. 4 }

HsvCall(h, s, v) == [fn |-> "hsv_to_rgb", args |-> << h, s, v >>, ret |-> << >>]
InitHsv ==
  /\ PlayerNew /\ AnalyzerNew /\ run_app = "poll" /\ keys = 0 /\ stream = << >>
  /\ mutex = NoMutex
  /\ library = LibraryNew
  /\ \E h \in Hues, s \in Quarters, v \in Quarters : call = HsvCall(h, s, v)

HsvToRgb ==
  /\ call.fn = "hsv_to_rgb" /\ call.ret = << >>
  /\ call' = [call EXCEPT !.ret = hsv_to_rgb(call.args[1], call.args[2], call.args[3])]
  /\ UNCHANGED << player, analyzer, foreground, stream, mutex, library >>

NextHsv == HsvToRgb
SpecHsv == InitHsv /\ [][NextHsv]_vars

\* ------------------------------------------------------------------ claims
IsPrefix(a, b) == Len(a) <= Len(b) /\ a = SubSeq(b, 1, Len(a))

\* the samples of thread t in a sequence of samples, in order
Of(seq, t) == SelectSeq(seq, LAMBDA s : s.src = t)

\* the samples are numbered 1, 2, 3, ... by their k tag
InOrder(seq) == \A i \in 1 .. Len(seq) : seq[i].k = i

\* C1: get_samples() is an atomic destructive drain.  Every step that hands
\* samples to the caller hands over exactly the queue as it is, in queue
\* order, and leaves the queue empty; the queue never shrinks otherwise; so
\* a get_samples() that follows one with no append in between returns the
\* empty list.
C1_AtomicDrain ==
  [][ /\ GetSamples => drained' = drained \o sample_buffer /\ sample_buffer' = << >>
      /\ drained' # drained => drained' = drained \o sample_buffer /\ sample_buffer' = << >>
      /\ sample_buffer' # sample_buffer =>
           \/ sample_buffer' = << >> /\ drained' = drained \o sample_buffer
           \/ IsPrefix(sample_buffer, sample_buffer') /\ drained' = drained
    ]_vars

\* C1 witness: samples were drained, the queue is empty, the thread is alive
C1_Drained ==
  /\ Len(threads) = 1
  /\ Alive(1)
  /\ drained # << >>
  /\ sample_buffer = << >>

\* C2: with one decode thread, what get_samples() returned so far, in call
\* order, is a prefix of what the thread appended, and the rest is the queue:
\* no sample is lost, duplicated or reordered.
C2_SingleThreadFifo ==
  Len(threads) = 1 =>
    /\ IsPrefix(drained, produced)
    /\ drained \o sample_buffer = produced
    /\ InOrder(produced)
    /\ Len(produced) + Len(threads[1].f32_samples) = threads[1].made

\* C2 witness: two blocks were drained and another one is in the queue
C2_DrainedAndQueued ==
  /\ Len(threads) = 1
  /\ Len(drained) >= 4
  /\ sample_buffer # << >>

\* C3: a load_file() that returns an error leaves is_playing, position,
\* duration, volume and the queue as they were and spawns no decode thread.
C3_FailedLoadChangesNothing ==
  [][ (\E f \in Files : LoadError(f) # "none" /\ LoadFile(f))
        => UNCHANGED << is_playing, current_position, duration, volume,
                        sample_buffer, threads >>
    ]_vars

\* C3 witness: the last load_file() failed, after a load whose thread has
\* filled the queue and set the position
C3_FailedAfterLoad ==
  /\ load_result = "Err"
  /\ Len(threads) = 1
  /\ is_playing
  /\ sample_buffer # << >>
  /\ current_position > 0

\* C4: the volume is in [0,1] in every reachable state.
C4_VolumeInRange == ~volume.nan /\ 0 <= volume.v /\ volume.v <= 10

\* C5: every sample decoded after set_volume(v) returned is scaled by
\* clamp(v, 0, 1), the player's volume, and set_volume() leaves the queued
\* samples as they are.
C5_DecodeUsesCurrentVolume ==
  [][ /\ \A t \in Threads :
           threads[t].pc = "poll" /\ threads'[t].pc = "append" =>
             \A i \in 1 .. Len(threads'[t].f32_samples) :
               threads'[t].f32_samples[i].val
                 = Mul(threads'[t].f32_samples[i].raw, volume)
      /\ volume' # volume => sample_buffer' = sample_buffer
    ]_vars

\* C6: a decode thread scales every sample by the volume the player had when
\* the load_file() that spawned it ran, whatever set_volume() did since.
ScaledAtLoad(seq) ==
  \A i \in 1 .. Len(seq) : seq[i].val = Mul(seq[i].raw, loads[seq[i].src].volume)

C6_ScaleIsLoadTimeVolume ==
  /\ Len(loads) = Len(threads)
  /\ ScaledAtLoad(produced)
  /\ \A t \in Threads : ScaledAtLoad(threads[t].f32_samples)

\* C6 witness: the queue holds a sample whose scale is not the player's volume
C6_StaleScale ==
  \E i \in 1 .. Len(sample_buffer) :
    /\ sample_buffer[i].val # Mul(sample_buffer[i].raw, volume)
    /\ sample_buffer[i].val = Mul(sample_buffer[i].raw, loads[sample_buffer[i].src].volume)

\* C7: an iteration that reads the play flag as false only goes to sleep: no
\* packet, no block, nothing appended, position unchanged; the sleep ends in
\* a new poll; an iteration that reads the flag as true does not sleep.
C7_PausedIterationIdles ==
  [][ \A t \in Threads :
        /\ ( threads[t].pc = "poll" /\ ~is_playing /\ threads'[t] # threads[t] )
             => /\ threads'[t] = [threads[t] EXCEPT !.pc = "sleep"]
                /\ UNCHANGED << shared, produced, posWriters >>
        /\ ( threads[t].pc = "sleep" /\ threads'[t] # threads[t] )
             => /\ threads'[t] = [threads[t] EXCEPT !.pc = "poll"]
                /\ UNCHANGED << shared, produced, posWriters >>
        /\ ( threads[t].pc = "poll" /\ is_playing /\ threads'[t] # threads[t] )
             => threads'[t].pc \in {"append", "done"}
    ]_vars

\* C7 witness: a thread that had decoded sleeps, the flag being false
C7_SleepingAfterDecode ==
  \E t \in Threads :
    /\ threads[t].pc = "sleep"
    /\ ~is_playing
    /\ threads[t].made > 0

\* C8: every sample in the queue is at the output rate of 48 kHz.
C8_QueueAtOutputRate ==
  \A i \in 1 .. Len(sample_buffer) : sample_buffer[i].rate = OutputRate

\* C9: decode threads of different loads are producers on the same state:
\* the one queue receives the blocks of all of them in the order of their
\* appends, each thread's samples in the thread's order, with nothing dropped
\* at a reload, and the position is the local position of whichever thread
\* wrote last.
C9_SharedProducers ==
  /\ produced = drained \o sample_buffer
  /\ \A t \in Threads : InOrder(Of(produced, t))
  /\ posWriters # << >> =>
       current_position = threads[posWriters[Len(posWriters)]].position

\* C9 witness: the queue holds blocks of both sources interleaved and the
\* position was written by one thread, then the other, then the first again
C9_Interleaved ==
  /\ \E i, j, k \in 1 .. Len(sample_buffer) :
       /\ i < j /\ j < k
       /\ sample_buffer[i].src = sample_buffer[k].src
       /\ sample_buffer[i].src # sample_buffer[j].src
  /\ \E i, j, k \in 1 .. Len(posWriters) :
       /\ i < j /\ j < k
       /\ posWriters[i] = posWriters[k]
       /\ posWriters[i] # posWriters[j]

\* C10: a successful load_file() spawns exactly one decode thread, a failed
\* one none, and a decode thread ends only by its own break: no call of the
\* controller stops or removes a thread spawned before.
C10_LoadsOnlySpawn ==
  [][ /\ \A f \in Files : LoadFile(f) =>
           Len(threads') = Len(threads) + (IF LoadError(f) = "none" THEN 1 ELSE 0)
      /\ Len(threads') # Len(threads) => \E f \in Files : LoadFile(f)
      /\ \A t \in Threads :
           /\ ((\E f \in Files : LoadFile(f)) \/ Play \/ Pause \/ GetSamples
                 \/ \E v \in AllVolumeArgs : SetVolume(v))
                => threads'[t] = threads[t]
           /\ ( Alive(t) /\ threads'[t].pc = "done" )
                => threads[t].pc = "poll" /\ is_playing
    ]_vars

\* C10 witness: after a load, a pause, a drain and a failed load, the one
\* thread spawned is alive and has a block to append
C10_ThreadOutlivesCalls ==
  /\ Len(threads) = 1
  /\ Len(loads) = 1
  /\ load_result = "Err"
  /\ ~is_playing
  /\ drained # << >>
  /\ threads[1].pc = "append"

\* all the samples of a sequence of slices, in order
RECURSIVE Flatten(_)
Flatten(slices) ==
  IF slices = << >> THEN << >>
  ELSE Flatten(SubSeq(slices, 1, Len(slices) - 1)) \o slices[Len(slices)]

\* C12: after any add_samples() calls that passed n samples in all, the
\* analyzer's ring holds min(n, 2048) samples, never more than 2048, and they
\* are the most recent ones, in arrival order; when the ring is full, the
\* window update_spectrum() takes from it is the most recent 2048 samples.
C12_RingIsMostRecent ==
  LET all == Flatten(added)
      n == Len(all)
      ring == visualizer.sample_buffer
      m == IF n < 2048 THEN n ELSE 2048
  IN /\ Len(ring) <= 2048
     /\ ring = SubSeq(all, n - m + 1, n)
     /\ n >= 2048 => Window(visualizer) = SubSeq(all, n - 2047, n)

\* C12 witness: more than 2048 samples were added to a new analyzer, in two
\* slices, so the oldest sample was dropped
C12_Overflowed ==
  /\ Len(added) = 2
  /\ added[1] = Ramp(2047)
  /\ Len(Flatten(added)) > 2048
  /\ Len(visualizer.sample_buffer) = 2048

\* C13: an update_spectrum() call on a ring of fewer than 2048 samples
\* changes nothing of the analyzer: bars, beat intensity, hue, last-beat
\* time and the ring are as before.
C13_ShortWindowNoOp ==
  [][ ticks' = ticks + 1 /\ Len(visualizer.sample_buffer) < 2048
        => visualizer' = visualizer ]_vars

\* C13 witness: update_spectrum() was called on a ring that holds samples,
\* but fewer than 2048 (the ring never shrinks, so every call so far was)
C13_CalledOnShortRing ==
  /\ ticks > 0
  /\ Len(visualizer.sample_buffer) = 2047

\* C14: in every reachable state the analyzer has exactly 32 bars, each a
\* number in [0, 1].
C14_BarsInRange ==
  /\ Len(visualizer.spectrum_bars) = 32
  /\ \A j \in 1 .. Len(visualizer.spectrum_bars) :
       /\ QLe(Q(0, 1), visualizer.spectrum_bars[j])
       /\ QLe(visualizer.spectrum_bars[j], Q(1, 1))

\* "no beat was triggered": the last-beat time is as before
NoBeat == visualizer'.last_beat_time = visualizer.last_beat_time

\* C15: after every update_spectrum() call on a full ring the beat intensity
\* is in [0, 1]; when the call triggers no beat, the intensity is the one
\* before times 0.95, so from a positive value it decreases and stays
\* positive.
C15_BeatDecays ==
  [][ ticks' = ticks + 1 /\ Len(visualizer.sample_buffer) >= 2048
        => LET b == visualizer.beat_intensity
               c == visualizer'.beat_intensity
           IN /\ QLe(Q(0, 1), c) /\ QLe(c, Q(1, 1))
              /\ NoBeat => c = QMul(b, Q(95, 100))
              /\ NoBeat /\ QLess(Q(0, 1), b) => QLess(Q(0, 1), c) /\ QLess(c, b) ]_vars

\* C15 witness: a beat of intensity 0.7 was followed by a call without a beat
C15_DecayedOnce ==
  /\ ticks >= 2
  /\ visualizer.beat_intensity = Q(665, 1000)

\* C16: the hue is in [0, 360); every update_spectrum() call on a full ring
\* moves it forward by 0.02 + 0.1 * beat_intensity, modulo 360, with the
\* beat intensity the same call left.
C16_HueAdvances ==
  [][ ticks' = ticks + 1 /\ Len(visualizer.sample_buffer) >= 2048
        => LET h == visualizer.rainbow_hue
               g == visualizer'.rainbow_hue
               rotation_speed == QAdd(Q(2, 100), QMul(visualizer'.beat_intensity, Q(1, 10)))
               sum == QAdd(h, rotation_speed)
           IN /\ QLe(Q(0, 1), g) /\ QLess(g, Q(360, 1))
              /\ \/ QLess(sum, Q(360, 1)) /\ g = sum
                 \/ QLe(Q(360, 1), sum) /\ g = QSub(sum, Q(360, 1)) ]_vars

\* C16 witness: a call that triggered a beat of intensity 0.7 took the hue
\* from 359.98 over 360, to 0.07
C16_WrappedWithBeat ==
  /\ ticks = 1
  /\ visualizer.beat_intensity = Q(7, 10)
  /\ visualizer.rainbow_hue = Q(7, 100)

\* the foreground loop has returned from run_app
Returned == run_app \in { "Ok", "Err" }

\* C11: a load error is fatal to that load_file() call only.  In every step
\* in which Enter is handled and load_file() returns Err, the player is left
\* as it was and the foreground loop goes on to its next tick.
C11_LoadErrorKeepsLoopRunning ==
  [][ keys' = keys + 1 /\ load_result' = "Err"
        => /\ UNCHANGED << shared, threads, loads, produced, drained >>
           /\ run_app' = "update" ]_vars

\* C19: every foreground tick drains the queue, passes exactly the drained
\* samples to add_samples() and then calls update_spectrum(), and nothing
\* else drains the queue or feeds the analyzer; so what the analyzer was
\* handed is what was drained, in order, and with the queue it is everything
\* that was appended (each sample once, first in first out); and as long as
\* the loop has not returned, a sample in the queue is handed over
\* eventually.
C19_TickHandsOver ==
  /\ [][ /\ run_app = "update" /\ run_app' = "poll" =>
              /\ drained' = drained \o sample_buffer
              /\ sample_buffer' = << >>
              /\ Flatten(added') = Flatten(added) \o sample_buffer
              /\ \E elapsed \in Elapsed, mags \in AllSpectra :
                   visualizer' =
                     UpdateSpectrumOf(
                       [visualizer EXCEPT !.sample_buffer = AddSamplesTo(@, sample_buffer)],
                       Magnitudes(mags), now + elapsed)
         /\ ~(run_app = "update" /\ run_app' = "poll") =>
              /\ drained' = drained
              /\ UNCHANGED << visualizer, added >> ]_vars
  /\ [](Flatten(added) = drained /\ produced = drained \o sample_buffer)
  /\ (sample_buffer # << >>) ~> (sample_buffer = << >> \/ Returned)

\* C19 witness: two ticks handed samples to the analyzer, which holds all
\* that was appended
C19_HandedOverTwice ==
  /\ Len(added) >= 2
  /\ sample_buffer = << >>
  /\ visualizer.sample_buffer = produced
  /\ ~Returned

\* a dyadic f32 of the conversion is in [-1, 1]; |m| <= 2^24 always
InUnit(f) == f.e >= 24 \/ Abs(f.m) <= 2^f.e
\* m * 2^k as a sample-sized integer, 0 <= k <= 16
WordScale(m, k) == Word(m \div 2^(16 - k), (m % 2^(16 - k)) * 2^k)
\* 2^(n-1)
HalfRange(n) == IF n > 16 THEN Word(2^(n - 17), 0) ELSE Word(0, 2^(n - 1))
\* f is w / 2^(n-1) as an f32: exactly, or, where w has more than 24
\* significant bits, within half a unit of the last place of f
IsScaled(f, w, n) ==
  LET k == n - 1 - f.e
      d == WordSub(WordScale(f.m, k), w)
      half == IF k = 0 THEN 0 ELSE 2^(k - 1)
  IN /\ k \in 0 .. 16
     /\ \/ d.hi = 0 /\ d.lo <= half
        \/ d.hi = -1 /\ 65536 - d.lo <= half
Converted == call.fn = "convert" /\ call.ret # << >>

\* C17: the decode loop normalizes a sample v of an unsigned N-bit format to
\* v / 2^(N-1) - 1 and of a signed N-bit format to v / 2^(N-1), both in
\* [-1, 1]; unsigned 8-bit 255, 128, 0 give 0.992 (within 0.001), 0.0, -1.0.
C17_NormalizedToUnit ==
  Converted =>
    LET format == call.args[1]
        v == call.args[2]
        f == call.ret[1]
        n == Bits(format)
    IN /\ InUnit(f)
       /\ IsScaled(f, IF Signed(format) THEN v ELSE WordSub(v, HalfRange(n)), n)
       /\ format = "U8" /\ v = WordOf(255) => Abs(f.m * 1000 - 992 * 2^f.e) <= 2^f.e
       /\ format = "U8" /\ v = WordOf(128) => f.m = 0
       /\ format = "U8" /\ v = WordOf(0) => f.m = -(2^f.e)

\* the frames of a sequence of packets
RECURSIVE Frames(_)
Frames(packets) == IF packets = << >> THEN 0 ELSE Head(packets) + Frames(Tail(packets))

\* C18: for a 44100 Hz source the number of samples appended to the queue
\* is the number of decoded frames times 48000 / 44100, up to the rounding
\* of one block, whatever the sizes of the packets.
C18_OutputCountIsRatio ==
  call.fn = "decode" =>
    LET n == Frames(call.args)
        block == (chunk_size * OutputRate) \div SourceRate + 1
    IN Abs(call.ret[1] * SourceRate - n * OutputRate) <= block * SourceRate

\* the 60-degree sector of a hue of [0, 360): 0 .. 5
Sector(h) == (h.n \div h.d) \div 60
\* the channel (1 red, 2 green, 3 blue) that carries c, and the one that
\* carries 0.0, in each sector of the standard conversion
Strongest(sector) == CASE sector \in { 5, 0 } -> 1 [] sector \in { 1, 2 } -> 2 [] sector \in { 3, 4 } -> 3
Weakest(sector) == CASE sector \in { 0, 1 } -> 3 [] sector \in { 2, 3 } -> 1 [] sector \in { 4, 5 } -> 2
\* the position of a hue in its pair of sectors, as a distance from the
\* odd multiple of 60 in the middle of the pair: |h/60 mod 2 - 1|
FromMiddle(h) ==
  LET pair == Q(h.n % (120 * h.d), h.d)
  IN QDiv(QAbs(QSub(pair, Q(60, 1))), Q(60, 1))
HsvReturned == call.fn = "hsv_to_rgb" /\ call.ret # << >>

\* C20: hsv_to_rgb is the standard conversion on h in [0, 360), s and v in
\* [0, 1].  With c = v * s and x = c * (1 - |h/60 mod 2 - 1|), the sector of
\* h says which channel carries c, which 0 and which x; each channel is
\* (that + v - c) * 255 truncated; and at s = v = 1 the hues 0, 120 and 240
\* give pure red, green and blue.
C20_StandardConversion ==
  HsvReturned =>
    LET h == call.args[1]
        s == call.args[2]
        v == call.args[3]
        c == QMul(v, s)
        x == QMul(c, QSub(Q(1, 1), FromMiddle(h)))
        strongest == Strongest(Sector(h))
        weakest == Weakest(Sector(h))
        middle == CHOOSE i \in 1 .. 3 : i # strongest /\ i # weakest
        Channel(value) == QMul(QAdd(value, QSub(v, c)), Q(255, 1))
        Truncated(a) == CHOOSE k \in 0 .. 255 : QLe(Q(k, 1), a) /\ QLess(a, Q(k + 1, 1))
    IN /\ DOMAIN call.ret = 1 .. 3
       /\ call.ret[strongest] = Truncated(Channel(c))
       /\ call.ret[weakest] = Truncated(Channel(Q(0, 1)))
       /\ call.ret[middle] = Truncated(Channel(x))
       /\ s = Q(1, 1) /\ v = Q(1, 1) =>
            /\ h = Q(0, 1) => call.ret = << 255, 0, 0 >>
            /\ h = Q(120, 1) => call.ret = << 0, 255, 0 >>
            /\ h = Q(240, 1) => call.ret = << 0, 0, 255 >>

\* a hue in the middle of the fourth sector, where no channel is a whole
\* number before the truncation
C20_TruncatedCyanBlue ==
  /\ HsvReturned
  /\ call.args = << Q(195, 1), Q(3, 4), Q(1, 2) >>
  /\ call.ret = << 31, 103, 127 >>

\* what the next read of thread t's loop gets
Getting(t) ==
  IF AtEnd(t) THEN "end_of_stream" ELSE stream[t].outcomes[stream[t].read + 1]
\* what the last read of thread t's loop got
Got(t) == IF stream[t].read = 0 THEN "nothing" ELSE stream[t].outcomes[stream[t].read]
\* thread t leaves its loop in this step
Terminates(t) == Alive(t) /\ threads'[t].pc = "done"
\* thread t reads its source in this step
ReadsSource(t) == stream'[t].read = stream[t].read + 1 \/ (Terminates(t) /\ AtEnd(t))
FatalOutcomes == { "decode_error", "read_error", "end_of_stream" }

Had(t) == SubSeq(stream[t].outcomes, 1, stream[t].read)
Fatal(e) == e \in { "decode_error", "read_error" }
\* thread t left its loop on the Err of the end of the stream
EndedAtEnd(t) == threads[t].pc = "done" /\ AtEnd(t) /\ ~Fatal(Got(t))
\* thread t left its loop on the first Err(_) of its source
EndedOnError(t) ==
  /\ threads[t].pc = "done" /\ Fatal(Got(t))
  /\ \A i \in 1 .. stream[t].read - 1 : ~Fatal(stream[t].outcomes[i])
\* the block of every packet thread 1 decoded is appended, whole and in order
AllAppended ==
  /\ Len(posWriters) = Decoded(Had(1))
  /\ Len(produced) = threads[1].made
  /\ InOrder(produced)
  /\ \A i \in 1 .. Len(produced) : produced[i].src = 1

\* C22 as stated: when the play flag stays set from some point on, the
\* thread of a finite source reaches the end of the stream and terminates,
\* with the block of every decoded packet appended.
C22_ReachesEndOfStream ==
  <>[]is_playing => <>(EndedAtEnd(1) /\ AllAppended)

\* C22: when the play flag stays set from some point on, the thread of a
\* finite source terminates, at the end of the stream or at the first Err(_)
\* before it, with the block of every packet it decoded appended.
C22_Terminates ==
  <>[]is_playing => <>((EndedAtEnd(1) \/ EndedOnError(1)) /\ AllAppended)

\* the thread ended at the end of a stream with a reset between two packets
C22_EndedAfterReset ==
  /\ EndedAtEnd(1)
  /\ stream[1].outcomes = << "decoded", "read_reset", "decoded" >>
  /\ Len(posWriters) = 2
  /\ AllAppended

\* thread t gets outcome e in this step
Gets(t, e) == Getting(t) = e /\ stream'[t].read = stream[t].read + 1

\* C23: on ResetRequired from next_packet() or decode() the thread appends
\* nothing, leaves the position (its own and the shared one) as it is, and
\* is at the top of its loop again, not terminated.
C23_ResetContinues ==
  [][ \A t \in Threads :
        Gets(t, "read_reset") \/ Gets(t, "decode_reset") =>
          /\ UNCHANGED << shared, history >>
          /\ threads'[t] = threads[t]
          /\ threads'[t].pc = "poll" ]_vars

\* the thread is at the top of its loop after a block and a reset of decode
C23_PollingAfterReset ==
  /\ Had(1) = << "decoded", "decode_reset" >>
  /\ threads[1].pc = "poll"
  /\ current_position > 0
  /\ current_position = threads[1].position

\* C24: the step in which a thread terminates, at the end of the stream or
\* on another Err(_), changes no shared field and records nothing: position,
\* duration and queue are as before and the play flag is still set.
C24_TerminationIsSilent ==
  [][ \A t \in Threads :
        Terminates(t) =>
          /\ UNCHANGED << shared, history >>
          /\ is_playing'
          /\ threads'[t] = [threads[t] EXCEPT !.pc = "done"] ]_vars

\* the thread ended on a read error, and the player looks as while playing
C24_FailedLooksPlaying ==
  /\ threads[1].pc = "done"
  /\ Got(1) = "read_error"
  /\ is_playing
  /\ current_position > 0
  /\ sample_buffer # << >>

\* d nanoseconds is k / (48000 * c) seconds to less than a nanosecond
WithinNanosecond(d, k, c) == Abs(d * 3 * c - k * 62500) < 3 * c

\* C25: when process() fails on a block, the thread appends the decoded
\* block itself: every sample times the volume, in the block's order and
\* length; the position then advances by that length, the thread is at the
\* top of its loop again, and no shared field records the failure.
C25_FailedBlockPassesThrough ==
  [][ \A t \in Threads :
        threads[t].resampler =>
          /\ (\E block \in DecodedBlocks, out \in ResampledBlocks : DecodeOk(t, block, FALSE, out)) =>
                /\ \E block \in DecodedBlocks :
                     /\ Len(threads'[t].f32_samples) = Len(block)
                     /\ \A i \in 1 .. Len(block) :
                          /\ threads'[t].f32_samples[i].raw = block[i]
                          /\ threads'[t].f32_samples[i].val = Mul(block[i], threads[t].volume)
                     /\ threads'[t].sample_count = Len(block)
                /\ threads'[t].pc = "append"
                /\ UNCHANGED << shared, history >>
          /\ threads[t].pc = "append" /\ threads'[t] # threads[t] =>
                /\ sample_buffer' = sample_buffer \o threads[t].f32_samples
                /\ threads'[t].pc = "setpos"
                /\ threads'[t].sample_count = Len(threads[t].f32_samples)
                /\ UNCHANGED << is_playing, current_position, duration, volume, load_result >>
          /\ threads[t].pc = "setpos" /\ threads'[t] # threads[t] =>
                /\ WithinNanosecond(threads'[t].position - threads[t].position,
                                     threads[t].sample_count, threads[t].channels)
                /\ current_position' = threads'[t].position
                /\ threads'[t].pc = "poll"
                /\ UNCHANGED << sample_buffer, is_playing, duration, volume, load_result >> ]_vars

\* the thread polls again after a block of two samples its resampler failed
\* on: the two are queued at the source's rate and the position is that of two
C25_PassedThrough ==
  /\ threads[1].resampler
  /\ threads[1].pc = "poll"
  /\ Len(sample_buffer) = 2
  /\ \A i \in 1 .. 2 : sample_buffer[i].rate = threads[1].native /\ sample_buffer[i].rate # OutputRate
  /\ current_position = 41667
  /\ is_playing

\* C26 as stated: the position a thread writes for a block of k samples of a
\* buffer with c channels is exactly k / (48000 * c) seconds after its last.
C26_PositionExact ==
  [][ \A t \in Threads :
        threads[t].pc = "setpos" /\ threads'[t] # threads[t] =>
          (threads'[t].position - threads[t].position) * 3 * threads[t].channels
            = threads[t].sample_count * 62500 ]_vars

\* C26: for a block of k appended samples of a buffer with c channels the
\* thread's position advances by k / (48000 * c) seconds as a whole number
\* of nanoseconds and the shared position is set to the thread's; the block is
\* appended, whole, in an earlier step that leaves the position as it is.
C26_PositionAdvance ==
  [][ \A t \in Threads :
        /\ threads[t].pc = "append" /\ threads'[t] # threads[t] =>
              /\ sample_buffer' = sample_buffer \o threads[t].f32_samples
              /\ threads[t].sample_count = Len(threads[t].f32_samples)
              /\ threads'[t] = [threads[t] EXCEPT !.pc = "setpos", !.f32_samples = << >>]
              /\ current_position' = current_position
        /\ threads[t].pc = "setpos" /\ threads'[t] # threads[t] =>
              /\ WithinNanosecond(threads'[t].position - threads[t].position,
                                   threads[t].sample_count, threads[t].channels)
              /\ current_position' = threads'[t].position
              /\ sample_buffer' = sample_buffer
        /\ threads'[t].position # threads[t].position => threads[t].pc = "setpos"
        /\ current_position' # current_position =>
              \E u \in Threads : threads[u].pc = "setpos" /\ threads'[u].pc = "poll" ]_vars

\* a reader sees the first block of a stereo source in the queue while the
\* position is still zero
C26_SamplesBeforePosition ==
  /\ threads[1].pc = "setpos"
  /\ threads[1].channels = 2
  /\ Len(sample_buffer) = threads[1].sample_count
  /\ sample_buffer # << >>
  /\ current_position = 0

\* C27: a load_file() that returns Ok on a source of n frames at rate r
\* leaves the duration at n / r seconds (here in milliseconds), written
\* before the new thread has taken a step; on a source whose frame count is
\* unknown it leaves the duration of the load before; and nothing else
\* writes the duration.
C27_DurationFromFrames ==
  [][ /\ Len(threads') = Len(threads) + 1 =>
           LET f == loads'[Len(loads')].file
               new == threads'[Len(threads')]
           IN /\ f.n_frames # None =>
                   LET remainder == f.n_frames[1] * 1000 - duration' * f.sample_rate[1]
                   IN 0 <= remainder /\ remainder < f.sample_rate[1]
              /\ f.n_frames = None => duration' = duration
              /\ new.pc = "poll" /\ new.made = 0 /\ new.position = 0
      /\ Len(threads') = Len(threads) => duration' = duration ]_vars

\* the second load was of a source with unknown frame count: the duration is
\* still the one second of the first, a source of 44100 frames at 44100 Hz
C27_StaleDuration ==
  /\ Len(loads) = 2
  /\ loads[1].file.n_frames = Some(44100)
  /\ loads[1].file.sample_rate = Some(44100)
  /\ loads[2].file.n_frames = None
  /\ duration = 1000

\* C28: an Err of load_file() inside select_item is returned by run_app.  The
\* step in which Enter is handled and load_file() fails ends the loop; once
\* the loop has ended on an error no tick, render or key event is processed,
\* play() is not called (the play flag stays as it was) and load_file() is
\* not called again.
C28_LoadErrorEndsLoop ==
  [][ /\ keys' = keys + 1 /\ load_result' = "Err" =>
           run_app' = "Err" /\ is_playing' = is_playing
      /\ run_app = "Err" =>
           /\ UNCHANGED << foreground, analyzer >>
           /\ is_playing' = is_playing
           /\ UNCHANGED << loads, load_result >> ]_vars

\* C28 witness: the loop ticked, then Enter was pressed on a file that could
\* not be opened and run_app returned the error, the player not playing
C28_ReturnedLoadError ==
  /\ run_app = "Err"
  /\ load_result = "Err"
  /\ keys > 0
  /\ ticks > 0
  /\ ~is_playing

\* the spectrum the transform gave in this call, after normalization
Normalized(name) == Normalize(Magnitudes(name))

\* the bins magnitudes[start_bin..end_bin] that each bar reads, bin 0 the
\* lowest, for the 32 bars and a spectrum of 1024 bins
BinsOfBars ==
  [ i \in 0 .. 31 |->
      start_bin(i, visualizer.spectrum_bars, ZeroSpectrum)
        .. end_bin(i, visualizer.spectrum_bars, ZeroSpectrum) - 1 ]

\* C29: every update_spectrum() call on a full ring sets bar i, 0 <= i < 32,
\* to 0.7 times its value before plus 0.3 times the mean of the normalized
\* magnitudes of bins 32i .. 32i + 31; the bins the bars read are within
\* 0 .. 1023, and each of the 1024 bins is read for exactly one bar.
C29_BarsSmoothBinMeans ==
  [][ ticks' = ticks + 1 /\ Len(visualizer.sample_buffer) >= 2048
        => /\ \E name \in FftOutputs(Window(visualizer)) :
                \E m \in { Normalized(name) } :
                  \A i \in 0 .. 31 :
                    visualizer'.spectrum_bars[i + 1] =
                      QAdd(QMul(Q(7, 10), visualizer.spectrum_bars[i + 1]),
                           QMul(Q(3, 10), QDiv(Sum(m, 32 * i + 1, 32 * i + 32), Q(32, 1))))
           /\ \E bins \in { BinsOfBars } :
                /\ \A i \in 0 .. 31 : bins[i] = 32 * i .. 32 * i + 31
                /\ \A b \in 0 .. 1023 : Cardinality({ i \in 0 .. 31 : b \in bins[i] }) = 1
                /\ \A i \in 0 .. 31 : bins[i] \subseteq 0 .. 1023 ]_vars

\* C29 witness: two calls on the treble band over a weak bass line: bar 16,
\* whose bins 512 .. 543 are the band, is 0.3 + 0.7 * 0.3, and bar 0 has
\* the bass line's 0.09 in one of its 32 bins
C29_BandInBarSixteen ==
  /\ ticks = 2
  /\ visualizer.spectrum_bars[17] = Q(51, 100)
  /\ visualizer.spectrum_bars[16] = Q(0, 1)
  /\ visualizer.spectrum_bars[18] = Q(0, 1)
  /\ visualizer.spectrum_bars[1] = QMul(Q(17, 10), QMul(Q(3, 10), Q(9, 3200)))

\* C30: on every update_spectrum() call on a full ring, with e the square
\* root of the sum of the normalized magnitudes of the lowest 128 bins: if
\* e > 0.3 and 0.2 s or more have passed since the last beat, the beat
\* intensity becomes min(1.0, e - 0.3) and the beat timer the time of the
\* call; otherwise the intensity is multiplied by 0.95 and the timer is as
\* before.  (The bars the call left tell which spectrum it worked on.)
C30_BeatAfterFifthOfSecond ==
  [][ ticks' = ticks + 1 /\ Len(visualizer.sample_buffer) >= 2048
        => \E name \in FftOutputs(Window(visualizer)) :
             \E m \in { Normalized(name) } :
               /\ visualizer'.spectrum_bars = UpdateFrequencyBars(visualizer.spectrum_bars, m)
               /\ LET e == QSqrt(Sum(m, 1, 128))
                      elapsed == now' - visualizer.last_beat_time
                  IN IF QLess(Q(3, 10), e) /\ elapsed >= 2
                     THEN /\ visualizer'.beat_intensity = QMin(Q(1, 1), QSub(e, Q(3, 10)))
                          /\ visualizer'.last_beat_time = now'
                     ELSE /\ visualizer'.beat_intensity = QMul(visualizer.beat_intensity, Q(95, 100))
                          /\ visualizer'.last_beat_time = visualizer.last_beat_time ]_vars

\* C30, with "more than 0.2 s": on every update_spectrum() call on a full
\* ring, with e as above: if e > 0.3 and more than 0.2 s have passed since
\* the last beat, the beat intensity becomes min(1.0, e - 0.3) and the beat
\* timer the time of the call; otherwise, and so at exactly 0.2 s, the
\* intensity is multiplied by 0.95 and the timer is as before.
C30_BeatAfterMoreThanFifth ==
  [][ ticks' = ticks + 1 /\ Len(visualizer.sample_buffer) >= 2048
        => \E name \in FftOutputs(Window(visualizer)) :
             \E m \in { Normalized(name) } :
               /\ visualizer'.spectrum_bars = UpdateFrequencyBars(visualizer.spectrum_bars, m)
               /\ LET e == QSqrt(Sum(m, 1, 128))
                      elapsed == now' - visualizer.last_beat_time
                  IN IF QLess(Q(3, 10), e) /\ elapsed > 2
                     THEN /\ visualizer'.beat_intensity = QMin(Q(1, 1), QSub(e, Q(3, 10)))
                          /\ visualizer'.last_beat_time = now'
                     ELSE /\ visualizer'.beat_intensity = QMul(visualizer.beat_intensity, Q(95, 100))
                          /\ visualizer'.last_beat_time = visualizer.last_beat_time ]_vars

\* C30 witness: two calls on a bass chord (e = 2), 0.1 s and 0.2 s after the
\* analyzer was built: the second, at exactly 0.2 s, triggered no beat
C30_NoBeatAtFifth ==
  /\ ticks = 2
  /\ now = 2
  /\ visualizer.spectrum_bars[1] = QMul(Q(17, 10), QMul(Q(3, 10), Q(4, 32)))
  /\ visualizer.last_beat_time = 0
  /\ visualizer.beat_intensity = Q(0, 1)

\* C31: the queue has no capacity bound.  A decode thread that has a block
\* to append can always append it (nothing makes it wait for room), the
\* append adds the whole block whatever the queue already holds, and as long
\* as get_samples() was not called the queue holds every sample ever
\* appended: its length grows with the number of blocks decoded.
C31_QueueGrowsWithoutBound ==
  /\ [](\A t \in Threads : threads[t].pc = "append" => ENABLED AddToBuffer(t))
  /\ [][ \A t \in Threads :
           threads[t].pc = "append" /\ threads'[t].pc # "append" =>
             /\ sample_buffer' = sample_buffer \o threads[t].f32_samples
             /\ Len(sample_buffer') = Len(sample_buffer) + threads[t].sample_count ]_vars
  /\ [](drained = << >> =>
          /\ sample_buffer = produced
          /\ Len(sample_buffer) >= 2 * Len(posWriters))

\* C31 witness: get_samples() was never called and every block the run
\* allows was appended: the queue holds them all
C31_AllBlocksQueued ==
  /\ drained = << >>
  /\ Len(posWriters) = MaxBlocks
  /\ Len(sample_buffer) >= 2 * MaxBlocks
  /\ sample_buffer = produced

\* thread t is at a lock() of a mutex that a thread holds
Waiting(t) ==
  /\ mutex.todo[t] # << >>
  /\ Head(mutex.todo[t])[1] = "lock"
  /\ mutex.holder[Head(mutex.todo[t])[2]] # Free

HolderAwaited(t) == mutex.holder[Head(mutex.todo[t])[2]]

\* C32: no thread holds two of the mutexes of the shared fields at once; a
\* decode thread holds neither the player's, the library's nor the
\* application state's mutex; and a thread that waits for a mutex waits for
\* another thread, which is not waiting itself and can take its next step:
\* no set of threads waits for one another.
C32_NoNestedFieldLocks ==
  /\ \A t \in MutexThreads :
       Cardinality({ l \in FieldLocks : mutex.holder[l] = t }) <= 1
  /\ \A t \in MutexThreads \ { Ui } : \A l \in OuterLocks : mutex.holder[l] # t
  /\ \A t \in MutexThreads :
       Waiting(t) => /\ HolderAwaited(t) # t
                     /\ ~Waiting(HolderAwaited(t))
                     /\ ENABLED MutexStep(HolderAwaited(t))

\* C32 witness: the foreground loop, in update() and holding the player's
\* mutex, waits for the queue, which one decode thread holds, while another
\* decode thread holds the position
C32_ForegroundWaitsForQueue ==
  /\ Len(mutex.todo) = 3
  /\ mutex.holder["audio_player"] = Ui
  /\ Waiting(Ui)
  /\ mutex.holder["sample_buffer"] = 2
  /\ HolderAwaited(Ui) = 2
  /\ mutex.holder["current_position"] = 3

\* q is made of whole blocks: every sample in it stands in the run of the
\* len samples of its block, all of its thread, in the block's order
WholeBlocks(q) ==
  \A i \in 1 .. Len(q) :
    LET start == i - (q[i].k - q[i].first)
    IN /\ start >= 1
       /\ start + q[i].len - 1 <= Len(q)
       /\ \A j \in 0 .. q[i].len - 1 :
            /\ q[start + j].src = q[i].src
            /\ q[start + j].first = q[i].first
            /\ q[start + j].k = q[i].first + j

\* C33: a block is appended as a whole.  At every moment the queue is a
\* sequence of whole blocks, each a contiguous run of one thread's samples,
\* and so is everything ever appended; and what a get_samples() call
\* returns is a sequence of whole blocks: no block is split between two
\* calls or mixed with the samples of another thread.
C33_BlocksAreWhole ==
  /\ [](WholeBlocks(sample_buffer) /\ WholeBlocks(produced))
  /\ [][ drained' # drained =>
           /\ Len(drained') >= Len(drained)
           /\ WholeBlocks(SubSeq(drained', Len(drained) + 1, Len(drained')))
           /\ WholeBlocks(sample_buffer') ]_vars

\* C33 witness: two decode threads; get_samples() returned a block of the
\* second while the first had a block to append, and now the queue holds a
\* block of each
C33_TwoProducersDrained ==
  /\ Len(threads) = 2
  /\ drained # << >>
  /\ drained[1].src = 2
  /\ Len(sample_buffer) = 4
  /\ sample_buffer[1].src = 1
  /\ sample_buffer[3].src = 2

\* the samples of thread t in q
SamplesFrom(q, t) == SelectSeq(q, LAMBDA x : x.src = t)

\* C34: pause() stops no iteration that has read the flag.  While the flag
\* is false a thread only moves on from where it is: from its append (the
\* one step that appends, one block) to its position update (the one step
\* that writes the position), from there to the poll, and between poll and
\* sleep, or it ends; it never comes back to an append or a position
\* update.  So until the next play() it appends at most one block and
\* writes the position at most once.
C34_PauseLetsIterationFinish ==
  [][ ~is_playing =>
        \A t \in Threads :
          /\ threads[t].pc = "append" =>
                /\ threads'[t].pc \in { "append", "setpos" }
                /\ threads'[t].position = threads[t].position
                /\ threads'[t].pc = "setpos" =>
                     SamplesFrom(produced', t) = SamplesFrom(produced, t) \o threads[t].f32_samples
          /\ threads[t].pc = "setpos" =>
                /\ threads'[t].pc \in { "setpos", "poll" }
                /\ SamplesFrom(produced', t) = SamplesFrom(produced, t)
          /\ threads[t].pc \in { "poll", "sleep", "done" } =>
                /\ threads'[t].pc \in { "poll", "sleep", "done" }
                /\ SamplesFrom(produced', t) = SamplesFrom(produced, t)
                /\ threads'[t].position = threads[t].position
                /\ threads'[t].made = threads[t].made
          /\ threads[t].pc # "setpos" /\ posWriters' # posWriters =>
                posWriters'[Len(posWriters')] # t ]_vars

\* C34 witness: pause() was called while an iteration, not the thread's
\* first, had a block to append
C34_PausedInFlight ==
  /\ ~is_playing
  /\ posWriters # << >>
  /\ \E t \in Threads : threads[t].pc = "append"

\* C35: the ring never gets shorter, and add_samples() of no samples leaves
\* it as it is; so once it holds 2048 samples it holds 2048 ever after, and
\* every update_spectrum() call from then on, a call that no add_samples()
\* came before included, leaves the ring as it is, smooths the bars again
\* with the spectrum of the window, sets the beat intensity again (a beat,
\* or the decay) and moves the hue.
C35_FullRingAlwaysAnalyzed ==
  /\ [][ /\ Len(visualizer'.sample_buffer) >= Len(visualizer.sample_buffer)
         /\ Len(visualizer'.sample_buffer) <= 2048 ]_vars
  /\ [](AddSamplesTo(visualizer.sample_buffer, << >>) = visualizer.sample_buffer)
  /\ [][ ticks' = ticks + 1 /\ Len(visualizer.sample_buffer) = 2048 =>
           /\ visualizer'.sample_buffer = visualizer.sample_buffer
           /\ Window(visualizer') = Window(visualizer)
           /\ visualizer'.rainbow_hue # visualizer.rainbow_hue
           /\ \E name \in FftOutputs(Window(visualizer)) :
                \E m \in { Normalized(name) } :
                  /\ visualizer'.spectrum_bars =
                       UpdateFrequencyBars(visualizer.spectrum_bars, m)
                  /\ \/ visualizer'.beat_intensity =
                          QMul(visualizer.beat_intensity, Q(95, 100))
                     \/ /\ visualizer'.beat_intensity =
                             QMin(Q(1, 1), QSub(QSqrt(Sum(m, 1, 128)), Q(3, 10)))
                        /\ visualizer'.last_beat_time = now' ]_vars

\* C35 witness: after the ring was filled, update_spectrum() was called
\* twice with no add_samples() in between, on the treble band: bar 16 was
\* smoothed twice, 0.3 and then 0.7 * 0.3 + 0.3
C35_AnalyzedTwiceWithoutSamples ==
  /\ ticks = 2
  /\ Len(added) = 2
  /\ Len(visualizer.sample_buffer) = 2048
  /\ visualizer.spectrum_bars[17] = Q(51, 100)

\* C36: as long as no second decode thread was spawned, the position never
\* goes down from one step to the next, so successive get_position() calls
\* return non-decreasing values; and it changes only in the step in which
\* the one thread, having appended a block, writes its own position.
C36_PositionMonotonic ==
  [][ Len(threads') <= 1 =>
        /\ current_position' >= current_position
        /\ current_position' # current_position =>
              /\ threads[1].pc = "setpos" /\ threads'[1].pc = "poll"
              /\ threads[1].sample_count > 0
              /\ Len(SamplesFrom(produced, 1)) = threads[1].made
              /\ current_position' = threads'[1].position ]_vars

\* C36 witness: the one thread wrote the position after each of two blocks
\* of two stereo samples, 20833 ns each
C36_PositionAfterTwoBlocks ==
  /\ Len(threads) = 1
  /\ Len(posWriters) = 2
  /\ current_position = 41666

\* thread t has written the position
Wrote(t) == \E i \in 1 .. Len(posWriters) : posWriters[i] = t

\* C37: a successful load_file() leaves the position and the queue as they
\* are.  After the second load, until the new thread writes the position,
\* the position is that of the first source (its thread's, or zero when it
\* wrote none); the new thread's first write sets it to the length of its
\* first block; and the queue only grows at its back, so what was in it at
\* the load stays ahead of everything the new thread appends.
C37_LoadKeepsPositionAndQueue ==
  /\ [][ /\ Len(threads') = Len(threads) + 1 =>
              current_position' = current_position /\ sample_buffer' = sample_buffer
         /\ IsPrefix(sample_buffer, sample_buffer') \/ sample_buffer' = << >>
         /\ Len(threads) = 2 /\ ~Wrote(2) /\ Wrote(2)' =>
              /\ threads[2].position = 0
              /\ current_position' = threads'[2].position
              /\ WithinNanosecond(current_position', threads[2].sample_count,
                                   threads[2].channels) ]_vars
  /\ [](Len(threads) = 2 /\ ~Wrote(2) =>
          current_position = IF Wrote(1) THEN threads[1].position ELSE 0)

\* C37 witness: the first source's thread had written the position twice
\* and its samples were in the queue when the second source was loaded;
\* the new thread's first write took the position down, and its block is
\* behind the first source's samples
C37_PositionDropped ==
  /\ posWriters = << 1, 1, 2 >>
  /\ current_position < threads[1].position
  /\ current_position = threads[2].position
  /\ sample_buffer[1].src = 1
  /\ sample_buffer[Len(sample_buffer)].src = 2

\* C38: a beat is triggered (the beat timer is set) only at a clock reading
\* more than 0.2 s after the timer's value, which is the reading of the
\* beat before or, before any beat, of the analyzer's construction; so two
\* beats are more than 0.2 s apart and none falls in the first 0.2 s.
C38_BeatsApart ==
  /\ [][ visualizer'.last_beat_time # visualizer.last_beat_time =>
           /\ visualizer'.last_beat_time = now'
           /\ visualizer'.last_beat_time - visualizer.last_beat_time > 2 ]_vars
  /\ [](visualizer.last_beat_time = 0 \/ visualizer.last_beat_time > 2)
  /\ [](visualizer.last_beat_time <= now)

\* C38 witness: two calls 0.3 s apart, the first 0.3 s after construction,
\* each triggered a beat of intensity 0.7 (the hue moved by 0.09 twice)
C38_TwoBeats ==
  /\ ticks = 2
  /\ now = 6
  /\ visualizer.last_beat_time = 6
  /\ visualizer.beat_intensity = Q(7, 10)
  /\ visualizer.rainbow_hue = Q(18, 100)

\* C39: after an update_spectrum() call on a frame whose largest magnitude
\* is positive and is in one of the lowest 128 bins, the bass energy of the
\* normalized frame is at least 1 however small the magnitudes are, and if
\* the call came more than 0.2 s after the last beat it triggered a beat
\* of intensity at least 0.7; after a call on a frame that is zero in every
\* bin no beat was triggered.
C39_LoudestInBassBeats ==
  call.fn = "update_spectrum" /\ call.ret # << >> =>
    \E frame \in { Frame(call.args[1], call.args[2], call.args[3]) } :
      \E largest \in { FoldMax(frame, 1, 1024) }, bass \in { FoldMax(frame, 1, 128) } :
        /\ QLess(Q(0, 1), largest) /\ bass = largest =>
             /\ \E m \in { [i \in 1 .. 1024 |-> QDiv(frame[i], largest)] } :
                  QLe(Q(1, 1), QSqrt(Sum(m, 1, 128)))
             /\ call.args[4] > 2 =>
                  /\ visualizer.last_beat_time = now
                  /\ QLe(Q(7, 10), visualizer.beat_intensity)
        /\ largest = Q(0, 1) =>
             /\ visualizer.last_beat_time = 0
             /\ visualizer.beat_intensity = Q(0, 1)

\* C39 witness: a frame with 0.0001 at bin 127 and less at bin 500, 0.3 s
\* after construction: a beat of intensity 0.7
C39_QuietBassBeat ==
  /\ call.fn = "update_spectrum" /\ call.ret # << >>
  /\ call.args = << 127, Q(1, 10000), Some(500), 3 >>
  /\ visualizer.last_beat_time = 3
  /\ visualizer.beat_intensity = Q(7, 10)

\* C40: in every state of a library that scan_directory, next_album,
\* prev_album, next_track, prev_track, set_album and set_track have acted
\* on, if there are albums then current_album_index is below their number
\* and current_track_index below the number of tracks of the current album,
\* so that get_current_track() is Some; and next_album and prev_album on
\* such a library go one album on or back, from the last to the first and
\* from the first to the last, and leave the track index 0.
C40_LibraryIndicesInRange ==
  /\ [](library.albums # << >> =>
          /\ library.current_album_index < Len(library.albums)
          /\ library.current_track_index
               < Len(library.albums[library.current_album_index + 1].tracks)
          /\ get_current_track(library) # None)
  /\ [][NextAlbum /\ library.albums # << >> =>
          /\ library'.current_album_index =
               IF library.current_album_index = Len(library.albums) - 1 THEN 0
               ELSE library.current_album_index + 1
          /\ library'.current_track_index = 0]_vars
  /\ [][PrevAlbum /\ library.albums # << >> =>
          /\ library'.current_album_index =
               IF library.current_album_index = 0 THEN Len(library.albums) - 1
               ELSE library.current_album_index - 1
          /\ library'.current_track_index = 0]_vars

\* C40 witness: next_album has wrapped from the second of two albums, which
\* has two tracks, to the first, which has one
C40_WrappedToFirstAlbum ==
  /\ call.fn = "next_album"
  /\ Len(library.albums) = 2
  /\ Len(library.albums[1].tracks) = 1
  /\ Len(library.albums[2].tracks) = 2
  /\ library.current_album_index = 0
  /\ library.current_track_index = 0

====
